---- MODULE Spec2Model ----
(***************************************************************************)
(* Model of the ebo retry library (package ebo).                           *)
(*                                                                         *)
(* Durations are integers counted in microseconds: one unit of the model   *)
(* is 1000 of Go's time.Duration nanoseconds.  Every duration the model    *)
(* handles is a whole number of microseconds, so the float64 round trip    *)
(* time.Duration(float64(d) * f) is the truncating division written in     *)
(* MulTenths below.  Float factors (Multiplier, RandomizeFactor) are kept  *)
(* in tenths: 20 is 2.0, 5 is 0.5.                                         *)
(*                                                                         *)
(* An error value is a record: kind "nil" is Go's nil error, kind "op" an  *)
(* error made by the caller's operation, kind "ctx" the context's          *)
(* cancellation error.  chain lists the wrappers around the innermost      *)
(* error, outermost first: "perm" is a *permanentError, "wrap" any other   *)
(* wrapper that implements Unwrap.  id is the number of the invocation     *)
(* that produced the error, which makes the errors of different attempts   *)
(* distinguishable.                                                        *)
(*                                                                         *)
(* cancelledIn keeps the position (pc) the session was at when its context *)
(* was cancelled, "never" before that.                                     *)
(*                                                                         *)
(* A session is one call of Retry or of one of its wrappers, or one range  *)
(* over Attempts or AttemptsWithContext, by the caller itself or by        *)
(* DoWithAttempts or DoWithAttemptsContext.                                *)
(*                                                                         *)
(* mode "exact" counts and times a session as the program does, for at     *)
(* most MaxCalls loop iterations.  mode "abstract" follows a session for   *)
(* ever: its counters stop at CountCap, which is above every MaxRetries of *)
(* the model, its clock stops at TimeCap, which is above every             *)
(* MaxElapsedTime of the model, and only the last sleep is remembered, so  *)
(* that every comparison the program makes has the same outcome as on the  *)
(* unbounded values.                                                       *)
(***************************************************************************)
EXTENDS Integers, Sequences, FiniteSets, TLC

VARIABLES shape, config, pc, now, attempts, currentInterval, pendingInterval,
          calls, okCalls, lastErr, lastOpErr, lastCond, lastDur, result,
          sleeps, cancelled, cancelledIn, logs, mode,
          idx, seqElapsed, attempt, yielded, ended, lastYield,
          optsLeft, applied, script, runR, runD, store, ranges, actor,
          middleware, recorder, writer, resp, maxRetries

vars == <<shape, config, pc, now, attempts, currentInterval, pendingInterval,
          calls, okCalls, lastErr, lastOpErr, lastCond, lastDur, result,
          sleeps, cancelled, cancelledIn, logs, mode,
          idx, seqElapsed, attempt, yielded, ended, lastYield,
          optsLeft, applied, script, runR, runD, store, ranges, actor,
          middleware, recorder, writer, resp, maxRetries>>

\* What no session touches: the options still to be applied to a policy under
\* construction and the options applied to it so far; the outcomes scripted
\* for an operation and the runs of Retry and of DoWithAttempts on that script;
\* the loop variables of the calls of one sequence value, the range loops over
\* it, and the range loop that took the last step.
auxVars == <<optsLeft, applied, script, runR, runD, store, ranges, actor,
             middleware, recorder, writer, resp, maxRetries>>

\* The state of the HTTP helpers and of RetryWithBackoff: the RetryMiddleware
\* (its checker), the responseRecorder of ServeHTTP, the ResponseWriter
\* ServeHTTP was given, the resp variable of RoundTrip and HTTPDo, and the
\* maxRetries argument of RetryWithBackoff.
httpVars == <<middleware, recorder, writer, resp, maxRetries>>

\* The state of an attempt sequence (Attempts, AttemptsWithContext): the loop
\* index i, the elapsed time last measured, the Attempt the iterator built
\* last, the Attempts yielded so far as they were when yielded, how the
\* sequence ended, and what the loop body last answered to yield.
seqVars == <<idx, seqElapsed, attempt, yielded, ended, lastYield>>

\* ------------------------------------------------------------------ bounds
\* No session of the model starts more than MaxCalls loop iterations.
MaxCalls == 4
\* rand.Float64() is drawn from {0, 1/RandDen, ..., (RandDen-1)/RandDen}.
RandDen == 3

\* ------------------------------------------------------------------- time
Millisecond == 1000
Second == 1000 * Millisecond
Minute == 60 * Second

\* Where the counters and the clock of an abstract session stop.
CountCap == MaxCalls
TimeCap == 50 * Millisecond

\* The durations an invocation of the caller's operation may take.
OpDurations == {0, 5 * Millisecond}

Min(a, b) == IF a <= b THEN a ELSE b

\* attempts++ and calls as kept in the given mode.
Count(m, n) == IF m = "abstract" THEN Min(n, CountCap) ELSE n

\* time.Now() as kept in the given mode.
Clock(m, t) == IF m = "abstract" THEN Min(t, TimeCap) ELSE t

\* The sleeps remembered in the given mode after sleeping d.
Slept(m, s, d) == IF m = "abstract" THEN <<d>> ELSE Append(s, d)

\* Truncation toward zero of n / d (d > 0), Go's float64 -> int64 conversion.
TruncDiv(n, d) == IF n >= 0 THEN n \div d ELSE -((-n) \div d)

\* time.Duration(float64(d) * f) with f given in tenths.
MulTenths(d, tenths) == TruncDiv(d * tenths, 10)

\* ----------------------------------------------------------------- errors
Nil == [kind |-> "nil", chain |-> <<>>, id |-> 0]
CtxErr == [kind |-> "ctx", chain |-> <<>>, id |-> 0]

\* The wrapper chains an operation's error may carry.
OpChains == {<<>>, <<"perm">>, <<"wrap", "perm">>, <<"perm", "perm">>}

OpError(chain, k) == [kind |-> "op", chain |-> chain, id |-> k]

\* errors.As(err, &permErr): is there a *permanentError in the cause chain.
HasPermanent(err) == \E i \in 1..Len(err.chain) : err.chain[i] = "perm"

\* Index of the first *permanentError errors.As finds walking the chain.
FirstPermanent(err) ==
    CHOOSE i \in 1..Len(err.chain) :
        /\ err.chain[i] = "perm"
        /\ \A j \in 1..(i - 1) : err.chain[j] # "perm"

\* permErr.err: the error wrapped by the permanentError errors.As found.
PermanentCause(err) ==
    [err EXCEPT !.chain = SubSeq(err.chain, FirstPermanent(err) + 1, Len(err.chain))]

\* &permanentError{err}
WrapPermanent(err) == [err EXCEPT !.chain = <<"perm">> \o err.chain]

\* ----------------------------------------------------------------- policy
DefaultConfig ==
    [InitialInterval |-> 500 * Millisecond,
     MaxInterval     |-> 30 * Second,
     MaxRetries      |-> 10,
     Multiplier      |-> 20,
     MaxElapsedTime  |-> 5 * Minute,
     RandomizeFactor |-> 5]

Initial(d) == [name |-> "Initial", arg |-> d]
Max(d) == [name |-> "Max", arg |-> d]
MaxTime(d) == [name |-> "MaxTime", arg |-> d]
Tries(n) == [name |-> "Tries", arg |-> n]
Multiplier(f) == [name |-> "Multiplier", arg |-> f]
Jitter(f) == [name |-> "Jitter", arg |-> f]

\* The options without argument and the presets, those whose factors are
\* whole tenths (Exponential and HTTPStatus set RandomizeFactor to 0.25).
NoJitter == [name |-> "NoJitter", arg |-> 0]
Forever == [name |-> "Forever", arg |-> 0]
Aggressive == [name |-> "Aggressive", arg |-> 0]
Gentle == [name |-> "Gentle", arg |-> 0]
Linear == [name |-> "Linear", arg |-> 0]
Database == [name |-> "Database", arg |-> 0]
API == [name |-> "API", arg |-> 0]
Quick == [name |-> "Quick", arg |-> 0]
Timeout(d) == [name |-> "Timeout", arg |-> d]

\* Variant: an option leaves alone a field an earlier option has moved away
\* from its default.
ApplyOption_firstWins(c, o) ==
    CASE o.name = "Tries" ->
             IF c.MaxRetries = DefaultConfig.MaxRetries
             THEN [c EXCEPT !.MaxRetries = o.arg] ELSE c
      [] o.name = "NoJitter" ->
             IF c.RandomizeFactor = DefaultConfig.RandomizeFactor
             THEN [c EXCEPT !.RandomizeFactor = 0] ELSE c
      [] o.name = "Initial" -> [c EXCEPT !.InitialInterval = o.arg]
      [] OTHER -> c

\* opt(config): the effect of one option on the configuration.
ApplyOption(c, o) ==
    CASE o.name = "Initial"    -> [c EXCEPT !.InitialInterval = o.arg]
      [] o.name = "Max"        -> [c EXCEPT !.MaxInterval = o.arg]
      [] o.name = "MaxTime"    -> [c EXCEPT !.MaxElapsedTime = o.arg]
      [] o.name = "Tries"      -> [c EXCEPT !.MaxRetries = o.arg]
      [] o.name = "Multiplier" -> [c EXCEPT !.Multiplier = o.arg]
      [] o.name = "Jitter"     -> [c EXCEPT !.RandomizeFactor = o.arg]
      [] o.name = "NoJitter"   -> [c EXCEPT !.RandomizeFactor = 0]
      [] o.name = "Forever"    -> [c EXCEPT !.MaxRetries = 0]
      [] o.name = "Aggressive" ->
             [c EXCEPT !.InitialInterval = 100 * Millisecond,
                       !.MaxInterval = 5 * Second,
                       !.MaxRetries = 20,
                       !.Multiplier = 15,
                       !.RandomizeFactor = 1]
      [] o.name = "Gentle" ->
             [c EXCEPT !.InitialInterval = 2 * Second,
                       !.MaxInterval = 30 * Second,
                       !.MaxRetries = 5,
                       !.Multiplier = 20,
                       !.RandomizeFactor = 5]
      [] o.name = "Linear" ->
             [c EXCEPT !.Multiplier = 10, !.RandomizeFactor = 0]
      [] o.name = "Database" ->
             [c EXCEPT !.InitialInterval = 1 * Second,
                       !.MaxInterval = 30 * Second,
                       !.MaxRetries = 10,
                       !.Multiplier = 20,
                       !.RandomizeFactor = 5,
                       !.MaxElapsedTime = 2 * Minute]
      [] o.name = "API" ->
             [c EXCEPT !.InitialInterval = 200 * Millisecond,
                       !.MaxInterval = 5 * Second,
                       !.MaxRetries = 3,
                       !.Multiplier = 20,
                       !.RandomizeFactor = 3]
      [] o.name = "Quick" ->
             [c EXCEPT !.InitialInterval = 50 * Millisecond,
                       !.MaxInterval = 1 * Second,
                       !.MaxRetries = 3,
                       !.Multiplier = 20,
                       !.RandomizeFactor = 1]
      [] o.name = "Timeout" ->
             [c EXCEPT !.MaxElapsedTime = o.arg, !.MaxRetries = 0]

RECURSIVE ApplyOptions(_, _)
\* for _, opt := range opts { opt(config) }
ApplyOptions(c, opts) ==
    IF opts = <<>> THEN c
    ELSE ApplyOptions(ApplyOption(c, Head(opts)), Tail(opts))

\* An option either left out of the call or given with one of the arguments.
Optional(S) == {<<>>} \cup {<<o>> : o \in S}

\* The option lists the sessions of the model are started with.
OptionLists ==
    {i \o m \o n \o f \o t \o j :
        i \in {<<Initial(10 * Millisecond)>>, <<Initial(100 * Millisecond)>>},
        m \in Optional({Max(50 * Millisecond)}),
        n \in {<<Tries(0)>>, <<Tries(1)>>, <<Tries(3)>>},
        f \in Optional({Multiplier(10), Multiplier(30)}),
        t \in {<<MaxTime(0)>>, <<MaxTime(25 * Millisecond)>>},
        j \in Optional({Jitter(0)})}

\* --------------------------------------------------------- backoff engine
\* Variant: the attempt check without the MaxRetries > 0 guard.
AttemptsExhausted_unguarded(c, n) == n >= c.MaxRetries

\* Variant: the attempt check written with > instead of >=.
AttemptsExhausted_gt(c, n) == c.MaxRetries > 0 /\ n > c.MaxRetries

\* config.MaxRetries > 0 && attempts >= config.MaxRetries
AttemptsExhausted(c, n) == c.MaxRetries > 0 /\ n >= c.MaxRetries

\* config.MaxElapsedTime > 0 && time.Since(startTime) >= config.MaxElapsedTime
TimeExhausted(c, elapsed) == c.MaxElapsedTime > 0 /\ elapsed >= c.MaxElapsedTime

\* min(time.Duration(float64(currentInterval)*config.Multiplier), config.MaxInterval)
Grown(c, cur) == Min(MulTenths(cur, c.Multiplier), c.MaxInterval)

\* Variant: the jitter window is one delta lower, from g - 2 delta to g.
Jittered_lower(g, f, r) ==
    TruncDiv(g * (10 * RandDen - 2 * f * RandDen + 2 * f * r), 10 * RandDen)

\* The jittered interval for rand.Float64() = r / RandDen:
\*   delta = f * g; min = g - delta; max = g + delta;
\*   time.Duration(min + rand * (max - min))
Jittered(g, f, r) ==
    TruncDiv(g * (10 * RandDen - f * RandDen + 2 * f * r), 10 * RandDen)

\* The interval computed after a failure, to be used after the coming sleep.
NextInterval(c, cur, r) ==
    IF c.RandomizeFactor > 0
    THEN Jittered(Grown(c, cur), c.RandomizeFactor, r)
    ELSE Grown(c, cur)

\* Variant: the sleep uses the interval just computed.
SleepFor_next(cur, next) == next

\* time.Sleep(currentInterval): the sleep uses the current interval, the
\* interval just computed is kept for the sleep after the next failure.
SleepFor(cur, next) == cur

\* Variant: a synthetic error is returned when a budget runs out.
RetryDecision_synthetic(c, err, n, elapsed) ==
    IF err = Nil
    THEN [stop |-> TRUE, value |-> Nil, count |-> n]
    ELSE IF HasPermanent(err)
    THEN [stop |-> TRUE, value |-> PermanentCause(err), count |-> n]
    ELSE IF AttemptsExhausted(c, n + 1) \/ TimeExhausted(c, elapsed)
    THEN [stop |-> TRUE, value |-> [kind |-> "exhausted", chain |-> <<>>, id |-> 0],
          count |-> n + 1]
    ELSE [stop |-> FALSE, value |-> Nil, count |-> n + 1]

\* Variant: the loop without the errors.As check for a permanent error.
RetryDecision_noPermanent(c, err, n, elapsed) ==
    IF err = Nil
    THEN [stop |-> TRUE, value |-> Nil, count |-> n]
    ELSE IF AttemptsExhausted(c, n + 1) \/ TimeExhausted(c, elapsed)
    THEN [stop |-> TRUE, value |-> err, count |-> n + 1]
    ELSE [stop |-> FALSE, value |-> Nil, count |-> n + 1]

\* What Retry does with the error fn returned, attempts failures having been
\* counted before and elapsed being time.Since(startTime): stop tells whether
\* Retry returns, value what it returns, count the new failure counter.
RetryDecision(c, err, n, elapsed) ==
    IF err = Nil
    THEN [stop |-> TRUE, value |-> Nil, count |-> n]
    ELSE IF HasPermanent(err)
    THEN [stop |-> TRUE, value |-> PermanentCause(err), count |-> n]
    ELSE IF AttemptsExhausted(c, n + 1) \/ TimeExhausted(c, elapsed)
    THEN [stop |-> TRUE, value |-> err, count |-> n + 1]
    ELSE [stop |-> FALSE, value |-> Nil, count |-> n + 1]

\* ---------------------------------------------------------------- helpers
\* Variant: the rejected error is handed to Retry unwrapped.
ConditionWrap_plain(err, retryable) == err

\* RetryWithCondition's wrapper: a failure the condition rejects is wrapped.
ConditionWrap(err, retryable) ==
    IF err # Nil /\ ~retryable THEN WrapPermanent(err) ELSE err

\* Variant: the wrapper never looks at the context.
ContextSkips_never(isCancelled) == FALSE

\* RetryWithContext's wrapper: select { case <-ctx.Done(): ... default: fn() }
ContextSkips(isCancelled) == isCancelled

\* Variant: the wrapper logs every attempt, the successful one too.
ShouldLog_always(err) == TRUE

\* RetryWithLogging's wrapper: if err != nil { logger.Printf(...) }
ShouldLog(err) == err # Nil

\* Variant: the line carries Retry's count of earlier failures.
LogLine_zeroBased(n, err) == [attempt |-> n - 1, err |-> err]

\* logger.Printf("Attempt %d failed: %v", attempt, err): the line written for
\* the wrapper's attempt counter n and the error err.
LogLine(n, err) == [attempt |-> n, err |-> err]

Shapes == {"Retry", "RetryWithContext", "RetryWithCondition", "RetryWithLogging"}

\* The drivers of an attempt sequence.
SeqShapes ==
    {"Attempts", "AttemptsWithContext", "DoWithAttempts", "DoWithAttemptsContext"}

\* The drivers that take a context.Context.
ContextShapes ==
    {"RetryWithContext", "AttemptsWithContext", "DoWithAttemptsContext"}

\* The drivers that run the caller's callback themselves.
DoShapes == {"DoWithAttempts", "DoWithAttemptsContext"}

\* A run on a script before it is started with a policy: the invocations
\* made, the failures counted (Retry) or the loop index (DoWithAttempts), the
\* current interval, the delays waited, lastErr, the result and whether the
\* function has returned.
NoRun ==
    [calls |-> 0, count |-> 0, cur |-> 0, sleeps |-> <<>>, last |-> Nil,
     result |-> Nil, done |-> FALSE]

\* var attempt *Attempt before the iterator built one.
NoAttempt == [Number |-> 0, Delay |-> 0, Elapsed |-> 0, LastError |-> Nil]

\* ---------------------------------------------------------- HTTP values
\* http.StatusOK
StatusOK == 200

\* The status codes a handler or a server answers with in the model.
Statuses == {StatusOK, 400, 429, 499, 500, 503}

\* An http.Header without entries.
NoHeaders == [key \in {} |-> 0]

\* h[key] = val on an http.Header.
HeaderSet(h, key, val) ==
    [x \in DOMAIN h \cup {key} |-> IF x = key THEN val ELSE h[x]]

\* newResponseRecorder()
NewResponseRecorder ==
    [Code |-> StatusOK, Headers |-> NoHeaders, Body |-> <<>>,
     wroteHeader |-> FALSE]

\* Variant: reset keeps what the handler wrote before.
Reset_keep(r) == r

\* responseRecorder.reset
Reset(r) ==
    [r EXCEPT !.Headers = NoHeaders, !.Body = <<>>, !.Code = StatusOK,
              !.wroteHeader = FALSE]

\* responseRecorder.WriteHeader
RecWriteHeader(r, code) ==
    IF r.wroteHeader THEN r
    ELSE [r EXCEPT !.Code = code, !.wroteHeader = TRUE]

\* responseRecorder.Write
RecWrite(r, chunk) ==
    LET r1 == IF ~r.wroteHeader THEN RecWriteHeader(r, StatusOK) ELSE r
    IN  [r1 EXCEPT !.Body = @ \o chunk]

\* responseRecorder.Header() followed by Set on the map it returns.
RecHeaderSet(r, key, val) ==
    [r EXCEPT !.Headers = HeaderSet(@, key, val)]

\* responseRecorder.Result
Result(r) == [StatusCode |-> r.Code, Header |-> r.Headers]

\* The calls a handler makes on the http.ResponseWriter it is given.
SetsHeader(key, val) == [call |-> "Header", key |-> key, val |-> val, code |-> 0]
WritesHeader(code) == [call |-> "WriteHeader", key |-> "", val |-> 0, code |-> code]
Writes(val) == [call |-> "Write", key |-> "", val |-> val, code |-> 0]

\* One call of the handler on the recorder.
RecCall(r, c) ==
    CASE c.call = "Header"      -> RecHeaderSet(r, c.key, c.val)
      [] c.call = "WriteHeader" -> RecWriteHeader(r, c.code)
      [] c.call = "Write"       -> RecWrite(r, <<c.val>>)

\* m.next.ServeHTTP(recorder, r) for a handler that makes the calls of prog
\* in turn.
RECURSIVE NextServeHTTP(_, _)
NextServeHTTP(r, prog) ==
    IF prog = <<>> THEN r
    ELSE NextServeHTTP(RecCall(r, Head(prog)), Tail(prog))

\* What the wrapped handler may do on its invocation number n when it answers
\* with status code: every header value and body chunk it writes carries n.
HandlerPrograms(n, code) ==
    {<<>>,
     <<WritesHeader(code), Writes(n)>>,
     <<SetsHeader("X-Attempt", n), WritesHeader(code), Writes(n), Writes(n)>>,
     <<Writes(n), WritesHeader(code)>>,
     <<SetsHeader("X-Attempt", n), WritesHeader(code)>>}

\* The http.ResponseWriter ServeHTTP is given, before anything is written to
\* it: its header map, the status codes WriteHeader was called with, and the
\* body chunks written.
NewWriter == [Header |-> NoHeaders, Codes |-> <<>>, Body |-> <<>>]

\* responseRecorder.writeTo
WriteTo(r, wr) ==
    LET hdr == [x \in DOMAIN wr.Header \cup DOMAIN r.Headers |->
                   IF x \in DOMAIN r.Headers THEN r.Headers[x]
                   ELSE wr.Header[x]]
    IN  [Header |-> hdr,
         Codes  |-> Append(wr.Codes, r.Code),
         Body   |-> IF Len(r.Body) > 0 THEN wr.Body \o r.Body ELSE wr.Body]

\* Variant: only server errors are retried.
DefaultResponseChecker_5xx(response) == response.StatusCode >= 500

\* DefaultResponseChecker
DefaultResponseChecker(response) ==
    response.StatusCode >= 500 \/ response.StatusCode = 429

\* The checkers a caller passes to NewRetryMiddleware: nil, the default one,
\* or its own (the one of the tests retries on 400 only).
Checkers == {"nil", "default", "custom"}

\* NewRetryMiddleware(next, checker, opts...): a nil checker is replaced by
\* DefaultResponseChecker.  passed keeps the argument.
NewRetryMiddleware(checker) ==
    [checker |-> IF checker = "nil" THEN "default" ELSE checker,
     passed  |-> checker]

\* m.checker(result)
CheckerFlags(checker, response) ==
    IF checker = "default" THEN DefaultResponseChecker(response)
    ELSE response.StatusCode = 400

\* var resp *http.Response before a response was assigned.
NoResp == [StatusCode |-> 0, id |-> 0, closed |-> FALSE]

\* Variant: 429 is not retried.
RetryableStatus_5xx(code) == code >= 500

\* r.StatusCode >= 500 || r.StatusCode == 429 in RoundTrip and HTTPDo
RetryableStatus(code) == code >= 500 \/ code = 429

\* No HTTP helper and no RetryWithBackoff in this session.
NoHTTP ==
    /\ middleware = NewRetryMiddleware("nil")
    /\ recorder = NewResponseRecorder
    /\ writer = NewWriter
    /\ resp = NoResp
    /\ maxRetries = 0

\* ------------------------------------------------------------------- Init
Init ==
    /\ shape \in Shapes
    /\ \E opts \in OptionLists : config = ApplyOptions(DefaultConfig, opts)
    /\ pc = "loop"
    /\ now = 0
    /\ attempts = 0
    /\ currentInterval = config.InitialInterval
    /\ pendingInterval = 0
    /\ calls = 0
    /\ okCalls = 0
    /\ lastErr = Nil
    /\ lastOpErr = Nil
    /\ lastCond = TRUE
    /\ lastDur = 0
    /\ result = Nil
    /\ sleeps = <<>>
    /\ cancelled = FALSE
    /\ cancelledIn = "never"
    /\ logs = <<>>
    /\ mode = "exact"
    /\ idx = 0
    /\ seqElapsed = 0
    /\ attempt = NoAttempt
    /\ yielded = <<>>
    /\ ended = "none"
    /\ lastYield = "none"
    /\ optsLeft = <<>>
    /\ applied = <<>>
    /\ script = <<>>
    /\ runR = NoRun
    /\ runD = NoRun
    /\ store = <<>>
    /\ ranges = <<>>
    /\ actor = 0
    /\ NoHTTP

\* ---------------------------------------------------------------- actions
\* The body of Retry's loop after fn returned err at time t.
Returned(err, t) ==
    LET d == RetryDecision(config, err, attempts, t) IN
    /\ lastErr' = err
    /\ now' = Clock(mode, t)
    /\ attempts' = Count(mode, d.count)
    /\ IF d.stop
       THEN /\ pc' = "done"
            /\ result' = d.value
            /\ UNCHANGED <<pendingInterval, sleeps>>
       ELSE /\ \E r \in 0..(RandDen - 1) :
                 pendingInterval' = NextInterval(config, currentInterval, r)
            /\ pc' = "sleeping"
            /\ sleeps' = Slept(mode, sleeps, SleepFor(currentInterval, pendingInterval'))
            /\ UNCHANGED result
    /\ UNCHANGED <<shape, config, currentInterval, cancelled, cancelledIn, mode,
                   seqVars, auxVars>>

\* The operation is entered: one more invocation.
Enter ==
    /\ calls' = Count(mode, calls + 1)
    /\ pc' = "running"
    /\ UNCHANGED <<shape, config, now, attempts, currentInterval, pendingInterval,
                   okCalls, lastErr, lastOpErr, lastCond, lastDur, result,
                   sleeps, cancelled, cancelledIn, logs, mode, seqVars, auxVars>>

\* Retry: err := fn()
RetryCall ==
    /\ shape = "Retry"
    /\ pc = "loop"
    /\ (mode = "exact" => attempts < MaxCalls)
    /\ Enter

\* RetryWithCondition: err := fn()
ConditionCall ==
    /\ shape = "RetryWithCondition"
    /\ pc = "loop"
    /\ (mode = "exact" => attempts < MaxCalls)
    /\ Enter

\* RetryWithLogging: attempt++; err := fn()
LoggingCall ==
    /\ shape = "RetryWithLogging"
    /\ pc = "loop"
    /\ (mode = "exact" => attempts < MaxCalls)
    /\ Enter

\* RetryWithContext: the wrapper looks at ctx.Done() and either returns
\* ctx.Err() to Retry without entering the operation, or enters it.
ContextCall ==
    /\ shape = "RetryWithContext"
    /\ pc = "loop"
    /\ (mode = "exact" => attempts < MaxCalls)
    /\ IF ContextSkips(cancelled)
       THEN /\ Returned(CtxErr, now)
            /\ UNCHANGED <<calls, okCalls, lastOpErr, lastCond, lastDur, logs>>
       ELSE Enter

\* The operation returns after dur: nil or an error of its own.
OpReturns(opErr, dur, retryable) ==
    /\ pc = "running"
    /\ lastOpErr' = opErr
    /\ lastDur' = dur
    /\ lastCond' = retryable
    /\ okCalls' = IF opErr = Nil THEN okCalls + 1 ELSE okCalls
    /\ logs' = IF shape = "RetryWithLogging" /\ ShouldLog(opErr)
               THEN Append(logs, LogLine(calls, opErr))
               ELSE logs
    /\ UNCHANGED calls
    /\ Returned(IF shape = "RetryWithCondition"
                THEN ConditionWrap(opErr, retryable) ELSE opErr,
                now + dur)

OpSucceeds ==
    \E dur \in OpDurations : OpReturns(Nil, dur, TRUE)

OpFails ==
    \E dur \in OpDurations, ch \in OpChains :
        /\ shape # "RetryWithCondition"
        /\ OpReturns(OpError(ch, calls), dur, TRUE)

\* Under RetryWithCondition the caller's condition judges the error.
OpFailsJudged ==
    \E dur \in OpDurations, retryable \in BOOLEAN :
        /\ shape = "RetryWithCondition"
        /\ OpReturns(OpError(<<>>, calls), dur, retryable)

\* time.Sleep returns; currentInterval = nextInterval
Wake ==
    /\ pc = "sleeping"
    /\ now' = Clock(mode, now + (IF sleeps[Len(sleeps)] > 0 THEN sleeps[Len(sleeps)] ELSE 0))
    /\ currentInterval' = pendingInterval
    /\ pc' = "loop"
    /\ UNCHANGED <<shape, config, attempts, pendingInterval, calls, okCalls,
                   lastErr, lastOpErr, lastCond, lastDur, result, sleeps,
                   cancelled, cancelledIn, logs, mode, seqVars, auxVars>>

\* The context is cancelled by its owner, at any moment before the return.
Cancel ==
    /\ shape \in ContextShapes
    /\ pc # "done"
    /\ ~cancelled
    /\ cancelled' = TRUE
    /\ cancelledIn' = pc
    /\ UNCHANGED <<shape, config, pc, now, attempts, currentInterval,
                   pendingInterval, calls, okCalls, lastErr, lastOpErr, lastCond,
                   lastDur, result, sleeps, logs, mode, seqVars, auxVars>>

Next ==
    \/ RetryCall
    \/ ConditionCall
    \/ LoggingCall
    \/ ContextCall
    \/ OpSucceeds
    \/ OpFails
    \/ OpFailsJudged
    \/ Wake
    \/ Cancel

Spec == Init /\ [][Next]_vars

\* ------------------------------------------- RetryWithContext, followed for ever
\* The option lists of the sessions followed without a bound.
LiveOptionLists ==
    {i \o n \o t \o j :
        i \in {<<Initial(10 * Millisecond)>>},
        n \in {<<Tries(0)>>, <<Tries(3)>>},
        t \in {<<MaxTime(0)>>, <<MaxTime(25 * Millisecond)>>},
        j \in Optional({Jitter(0)})}

InitLive ==
    /\ shape = "RetryWithContext"
    /\ \E opts \in LiveOptionLists : config = ApplyOptions(DefaultConfig, opts)
    /\ pc = "loop"
    /\ now = 0
    /\ attempts = 0
    /\ currentInterval = config.InitialInterval
    /\ pendingInterval = 0
    /\ calls = 0
    /\ okCalls = 0
    /\ lastErr = Nil
    /\ lastOpErr = Nil
    /\ lastCond = TRUE
    /\ lastDur = 0
    /\ result = Nil
    /\ sleeps = <<>>
    /\ cancelled = FALSE
    /\ cancelledIn = "never"
    /\ logs = <<>>
    /\ mode = "abstract"
    /\ idx = 0
    /\ seqElapsed = 0
    /\ attempt = NoAttempt
    /\ yielded = <<>>
    /\ ended = "none"
    /\ lastYield = "none"
    /\ optsLeft = <<>>
    /\ applied = <<>>
    /\ script = <<>>
    /\ runR = NoRun
    /\ runD = NoRun
    /\ store = <<>>
    /\ ranges = <<>>
    /\ actor = 0
    /\ NoHTTP

\* The steps of the session itself: the goroutine that runs Retry keeps
\* running, its sleeps end and the operation returns.
SessionStep ==
    \/ ContextCall
    \/ OpSucceeds
    \/ OpFails
    \/ Wake

NextLive ==
    \/ SessionStep
    \/ Cancel

SpecLive == InitLive /\ [][NextLive]_vars /\ WF_vars(SessionStep)

\* ------------------------------------------------------------- properties

\* C1: with MaxRetries = n > 0 the operation is invoked at most n times in
\* every shape, and a plain Retry session that ended on a non-permanent
\* failure with the time budget not reached has invoked it exactly n times.
C1_AtMostMaxRetries ==
    /\ config.MaxRetries > 0 => calls <= config.MaxRetries
    /\ (/\ shape = "Retry"
        /\ pc = "done"
        /\ config.MaxRetries > 0
        /\ result # Nil
        /\ ~HasPermanent(lastErr)
        /\ ~TimeExhausted(config, now))
       => calls = config.MaxRetries

C1_Witness ==
    /\ shape = "Retry"
    /\ pc = "done"
    /\ config.MaxRetries = 3
    /\ calls = 3
    /\ result # Nil
    /\ ~HasPermanent(lastErr)
    /\ ~TimeExhausted(config, now)

\* C2: Retry returns nil exactly when an invocation returned nil, that
\* invocation is the last one, and a session stopped by a budget returns the
\* very error of its last invocation.
C2_NilIffSuccess ==
    /\ okCalls > 0 => (pc = "done" /\ okCalls = 1 /\ lastOpErr = Nil /\ lastErr = Nil)
    /\ pc = "done" => (result = Nil <=> okCalls > 0)
    /\ (pc = "done" /\ result # Nil /\ ~HasPermanent(lastErr)) => result = lastErr
    /\ (shape = "Retry" /\ pc = "done" /\ result # Nil /\ ~HasPermanent(lastErr))
       => (result = lastOpErr /\ result.id = calls)

C2_Witness ==
    /\ shape = "Retry"
    /\ pc = "done"
    /\ calls = 3
    /\ okCalls = 0
    /\ result = OpError(<<>>, 3)
    /\ TimeExhausted(config, now)
    /\ ~AttemptsExhausted(config, attempts)

\* C3: in Retry an error of attempt k whose cause chain holds a
\* permanentError ends the session at once: the result is the error that
\* permanentError wraps, the operation was invoked k times, the failure is not
\* counted and no sleep follows it.
C3_PermanentStops ==
    (shape = "Retry" /\ HasPermanent(lastErr))
    => /\ pc = "done"
       /\ result = PermanentCause(lastErr)
       /\ calls = lastErr.id
       /\ attempts = calls - 1
       /\ Len(sleeps) = calls - 1

C3_Witness ==
    /\ shape = "Retry"
    /\ pc = "done"
    /\ lastErr = OpError(<<"wrap", "perm">>, 2)
    /\ calls = 2
    /\ config.MaxRetries = 3
    /\ ~TimeExhausted(config, now)

\* C4: under RetryWithCondition the first error the condition rejects ends
\* the session: the operation was invoked exactly as many times as the
\* attempt that produced it, whatever MaxRetries is, and the result is the
\* operation's own error, not its wrapper.
C4_ConditionRejects ==
    (shape = "RetryWithCondition" /\ lastOpErr # Nil /\ ~lastCond)
    => /\ pc = "done"
       /\ result = lastOpErr
       /\ calls = lastOpErr.id
       /\ ~HasPermanent(result)

C4_Witness ==
    /\ shape = "RetryWithCondition"
    /\ pc = "done"
    /\ ~lastCond
    /\ calls = 2
    /\ config.MaxRetries = 3
    /\ result = OpError(<<>>, 2)

\* C5: with jitter 0 nothing is slept before the first invocation, the first
\* sleep is the initial interval, every later sleep is
\* min(previous sleep x multiplier, MaxInterval), and the session
\* {10ms, 3 tries, x2, no jitter} that fails twice and then succeeds made 3
\* invocations, slept 10ms and 20ms and returned nil.
C5_DelaySchedule ==
    config.RandomizeFactor = 0
    => /\ pc # "done" => Len(sleeps) = attempts
       /\ (attempts = 0 /\ pc # "done") => now = 0
       /\ (shape # "RetryWithContext" /\ pc \in {"running", "done"})
              => Len(sleeps) = calls - 1
       /\ Len(sleeps) >= 1 => sleeps[1] = config.InitialInterval
       /\ \A i \in 2..Len(sleeps) :
              sleeps[i] = Min(MulTenths(sleeps[i - 1], config.Multiplier), config.MaxInterval)
       /\ (/\ shape = "Retry"
           /\ config.InitialInterval = 10 * Millisecond
           /\ config.MaxRetries = 3
           /\ config.Multiplier = 20
           /\ config.MaxInterval >= 20 * Millisecond
           /\ pc = "done"
           /\ okCalls = 1
           /\ attempts = 2)
          => (calls = 3 /\ sleeps = <<10 * Millisecond, 20 * Millisecond>> /\ result = Nil)

C5_Witness ==
    /\ shape = "Retry"
    /\ config.RandomizeFactor = 0
    /\ config.InitialInterval = 10 * Millisecond
    /\ config.MaxRetries = 3
    /\ config.Multiplier = 20
    /\ pc = "done"
    /\ calls = 3
    /\ sleeps = <<10 * Millisecond, 20 * Millisecond>>
    /\ result = Nil

\* C6: every delay waited between two attempts is at most MaxInterval.
C6_DelayWithinMax ==
    \A i \in 1..Len(sleeps) : sleeps[i] <= config.MaxInterval

\* C7: with MaxElapsedTime = t > 0 Retry has returned by t plus the duration
\* of one invocation of the operation.
C7_ReturnsWithinBudget ==
    (shape = "Retry" /\ pc = "done" /\ config.MaxElapsedTime > 0)
    => now <= config.MaxElapsedTime + lastDur

\* C8: RetryWithContext never enters the operation on an attempt that begins
\* with the context cancelled, and a session whose context was cancelled
\* before the first attempt returns the cancellation error without a single
\* invocation.
C8_NoCallWhenCancelled ==
    /\ [][(shape = "RetryWithContext" /\ cancelled /\ pc # "running")
          => calls' = calls]_vars
    /\ []((shape = "RetryWithContext" /\ cancelled /\ calls = 0 /\ pc = "done")
          => result = CtxErr)

C8_Witness ==
    /\ shape = "RetryWithContext"
    /\ cancelled
    /\ calls = 0
    /\ attempts = 3
    /\ pc = "done"
    /\ result = CtxErr

\* C9: a cancellation that arrives while RetryWithContext waits for the next
\* attempt makes it return at once with the cancellation error: the only step
\* a session cancelled during a wait takes is that return.
C9_CancelEndsWait ==
    [][(shape = "RetryWithContext" /\ cancelledIn = "sleeping" /\ pc # "done")
       => (pc' = "done" /\ result' = CtxErr)]_vars

\* C10: whenever the context was cancelled before RetryWithContext returned
\* an error, that error is the cancellation error and not the operation's own
\* retryable error.
C10_CancelSupersedes ==
    (/\ shape = "RetryWithContext"
     /\ pc = "done"
     /\ cancelled
     /\ result # Nil
     /\ ~HasPermanent(lastErr))
    => result = CtxErr


\* ------------------------------------------------------- attempt sequences
\* errors.New("all retry attempts failed")
GenericErr == [kind |-> "generic", chain |-> <<>>, id |-> 0]

\* defaultInitialInterval .. defaultRandomizeFactor, the policy Attempts and
\* AttemptsWithContext start from.
SeqDefaultConfig ==
    [InitialInterval |-> 500 * Millisecond,
     MaxInterval     |-> 30 * Second,
     MaxRetries      |-> 10,
     Multiplier      |-> 20,
     MaxElapsedTime  |-> 5 * Minute,
     RandomizeFactor |-> 5]

\* getNextInterval(interval, factor) for a random draw r / RandDen: a value
\* drawn from [interval - factor * interval, interval + factor * interval].
GetNextInterval(cur, f, r) ==
    TruncDiv(cur * (10 * RandDen - f * RandDen + 2 * f * r), 10 * RandDen)

\* Variant: the checks without their > 0 guards.
SeqStops_unguarded(c, i, el, ctxErr) ==
    IF ctxErr THEN "cancel"
    ELSE IF i >= c.MaxRetries THEN "tries"
    ELSE IF el > c.MaxElapsedTime THEN "time"
    ELSE "none"

\* Variant: the attempt cap is compared with > instead of >=.
SeqStops_gt(c, i, el, ctxErr) ==
    IF ctxErr THEN "cancel"
    ELSE IF c.MaxRetries > 0 /\ i > c.MaxRetries THEN "tries"
    ELSE IF c.MaxElapsedTime > 0 /\ el > c.MaxElapsedTime THEN "time"
    ELSE "none"

\* The checks at the top of the iterator's loop, in their order: why the
\* sequence ends before attempt i + 1, "none" when it goes on.  ctxErr is
\* ctx.Err() != nil, FALSE for Attempts.
SeqStops(c, i, el, ctxErr) ==
    IF ctxErr THEN "cancel"
    ELSE IF c.MaxRetries > 0 /\ i >= c.MaxRetries THEN "tries"
    ELSE IF c.MaxElapsedTime > 0 /\ el > c.MaxElapsedTime THEN "time"
    ELSE "none"

\* Variant: the first attempt keeps Delay = currentInterval.
NewAttempt_firstDelay(i, cur, el) ==
    [Number |-> i + 1, Delay |-> cur, Elapsed |-> el, LastError |-> Nil]

\* Variant: attempts are numbered from 0.
NewAttempt_zeroBased(i, cur, el) ==
    [Number |-> i, Delay |-> IF i = 0 THEN 0 ELSE cur, Elapsed |-> el,
     LastError |-> Nil]

\* attempt := &Attempt{Number: i + 1, Delay: currentInterval, Elapsed: elapsed}
\* and, for the first attempt, attempt.Delay = 0.
NewAttempt(i, cur, el) ==
    [Number |-> i + 1, Delay |-> IF i = 0 THEN 0 ELSE cur, Elapsed |-> el,
     LastError |-> Nil]

\* The interval after an attempt was yielded and the loop body asked for more:
\* multiplied, capped, jittered.
UpdatedInterval(c, cur, r) ==
    LET m == IF c.Multiplier > 0 THEN MulTenths(cur, c.Multiplier) ELSE cur
        capped == IF m > c.MaxInterval THEN c.MaxInterval ELSE m
    IN  IF c.RandomizeFactor > 0
        THEN GetNextInterval(capped, c.RandomizeFactor, r)
        ELSE capped

\* Variant: the iterator goes on whatever the loop body answers.
YieldRefused_never(keepGoing) == FALSE

\* if !yield(attempt) { return }
YieldRefused(keepGoing) == ~keepGoing

\* Variant: a permanent error is retried like any other.
DoDecision_noPermanent(err) ==
    IF err = Nil THEN [stop |-> TRUE, value |-> Nil]
    ELSE [stop |-> FALSE, value |-> Nil]

\* The loop body of DoWithAttempts and DoWithAttemptsContext for the error err
\* of the callback: whether it returns, and what.
DoDecision(err) ==
    IF err = Nil THEN [stop |-> TRUE, value |-> Nil]
    ELSE IF HasPermanent(err) THEN [stop |-> TRUE, value |-> PermanentCause(err)]
    ELSE [stop |-> FALSE, value |-> Nil]

\* Variant: the exhaustion error is returned whatever the callback returned.
AfterLoop_generic(sh, ctxErr, last) ==
    IF sh = "DoWithAttemptsContext" /\ ctxErr THEN CtxErr
    ELSE GenericErr

\* Variant: DoWithAttemptsContext does not look at the context after the loop.
AfterLoop_noContext(sh, ctxErr, last) ==
    IF last # Nil THEN last
    ELSE GenericErr

\* What DoWithAttempts and DoWithAttemptsContext return once the sequence has
\* ended: ctx.Err() (DoWithAttemptsContext only), else lastErr, else the
\* exhaustion error.
AfterLoop(sh, ctxErr, last) ==
    IF sh = "DoWithAttemptsContext" /\ ctxErr THEN CtxErr
    ELSE IF last # Nil THEN last
    ELSE GenericErr

\* The option lists of the sequences: the policies without jitter, and two
\* jittered ones (the default factor 0.5, and 1.0) under Tries(3).
SeqOptionLists ==
    {i \o m \o n \o f \o t \o <<Jitter(0)>> :
        i \in {<<Initial(10 * Millisecond)>>},
        m \in Optional({Max(50 * Millisecond)}),
        n \in {<<Tries(0)>>, <<Tries(1)>>, <<Tries(3)>>},
        f \in Optional({Multiplier(10)}),
        t \in {<<MaxTime(0)>>, <<MaxTime(15 * Millisecond)>>}}
    \cup
    {<<Initial(10 * Millisecond), Tries(3)>> \o j : j \in Optional({Jitter(10)})}
    \cup
    {<<Initial(10 * Millisecond), Tries(-1), MaxTime(t), Jitter(0)>> :
        t \in {-1, 1}}

InitAttempts ==
    /\ shape \in SeqShapes
    /\ \E opts \in SeqOptionLists : config = ApplyOptions(SeqDefaultConfig, opts)
    /\ pc = "head"
    /\ now = 0
    /\ attempts = 0
    /\ currentInterval = config.InitialInterval
    /\ pendingInterval = 0
    /\ calls = 0
    /\ okCalls = 0
    /\ lastErr = Nil
    /\ lastOpErr = Nil
    /\ lastCond = TRUE
    /\ lastDur = 0
    /\ result = Nil
    /\ sleeps = <<>>
    /\ cancelled = FALSE
    /\ cancelledIn = "never"
    /\ logs = <<>>
    /\ mode = "exact"
    /\ idx = 0
    /\ seqElapsed = 0
    /\ attempt = NoAttempt
    /\ yielded = <<>>
    /\ ended = "none"
    /\ lastYield = "none"
    /\ optsLeft = <<>>
    /\ applied = <<>>
    /\ script = <<>>
    /\ runR = NoRun
    /\ runD = NoRun
    /\ store = <<>>
    /\ ranges = <<>>
    /\ actor = 0
    /\ NoHTTP

\* What a sequence never touches.
retryVars == <<attempts, pendingInterval, lastCond, logs, mode>>

\* The iterator returns: the range loop is over, and DoWithAttempts and
\* DoWithAttemptsContext run the code after their loop.
SeqEnds(why) ==
    /\ pc' = "done"
    /\ ended' = why
    /\ result' = IF shape \in DoShapes
                 THEN AfterLoop(shape, cancelled, lastErr)
                 ELSE result

\* The top of the iterator's loop up to the sleep, or up to the yield for the
\* first attempt.
SeqHead ==
    /\ shape \in SeqShapes
    /\ pc = "head"
    /\ LET why == SeqStops(config, idx, seqElapsed,
                           shape \in ContextShapes /\ cancelled)
       IN  IF why # "none"
           THEN /\ SeqEnds(why)
                /\ UNCHANGED <<attempt, yielded, sleeps>>
           ELSE /\ idx < MaxCalls
                /\ attempt' = NewAttempt(idx, currentInterval, seqElapsed)
                /\ IF idx = 0
                   THEN /\ yielded' = Append(yielded, attempt')
                        /\ pc' = "body"
                        /\ UNCHANGED sleeps
                   ELSE /\ sleeps' = Append(sleeps, currentInterval)
                        /\ pc' = "waiting"
                        /\ UNCHANGED yielded
                /\ UNCHANGED <<result, ended>>
    /\ UNCHANGED <<shape, config, now, currentInterval, calls, okCalls, lastErr,
                   lastOpErr, lastDur, cancelled, cancelledIn, idx, seqElapsed,
                   lastYield, retryVars, auxVars>>

\* Variant: select waits for the timer whatever ctx.Done() says.
SelectCases_timerOnly(ctxDone, d) == {"timer"}

\* Variant: a closed ctx.Done() does not keep select from taking the timer.
SelectCases_either(ctxDone, d) ==
    IF ctxDone THEN {"timer", "done"} ELSE {"timer"}

\* The cases AttemptsWithContext's select can take while it waits for d, given
\* whether ctx.Done() is closed: <-time.After(d) cannot proceed before d is
\* over, so a closed ctx.Done() is taken when d > 0; when d <= 0 both cases
\* can proceed and select takes either.
SelectCases(ctxDone, d) ==
    IF ~ctxDone THEN {"timer"}
    ELSE IF d > 0 THEN {"done"}
    ELSE {"timer", "done"}

\* The sleep is over (time.Sleep returns, time.After fires): elapsed is
\* measured and the attempt built before the sleep is yielded.
SeqWake ==
    /\ shape \in SeqShapes
    /\ pc = "waiting"
    /\ shape \in ContextShapes =>
           "timer" \in SelectCases(cancelled, currentInterval)
    /\ now' = now + (IF currentInterval > 0 THEN currentInterval ELSE 0)
    /\ seqElapsed' = now'
    /\ yielded' = Append(yielded, attempt)
    /\ pc' = "body"
    /\ UNCHANGED <<shape, config, currentInterval, calls, okCalls, lastErr,
                   lastOpErr, lastDur, result, sleeps, cancelled, cancelledIn,
                   idx, attempt, ended, lastYield, retryVars, auxVars>>

\* AttemptsWithContext's select takes <-ctx.Done(): the iterator returns
\* without yielding, at once or part of the way through the delay.
SeqInterrupted ==
    /\ shape \in SeqShapes \cap ContextShapes
    /\ pc = "waiting"
    /\ "done" \in SelectCases(cancelled, currentInterval)
    /\ SeqEnds("cancel")
    /\ \E waited \in {0, IF currentInterval > 0 THEN currentInterval \div 2 ELSE 0} :
           now' = now + waited
    /\ UNCHANGED <<shape, config, currentInterval, calls, okCalls, lastErr,
                   lastOpErr, lastDur, sleeps, cancelled, cancelledIn, idx,
                   seqElapsed, attempt, yielded, lastYield, retryVars, auxVars>>

\* The random draws the interval update can use.
Draws(c) == IF c.RandomizeFactor > 0 THEN 0..RandDen ELSE {0}

\* The loop body hands control back to the iterator after dur: yield returns
\* keepGoing, FALSE for a break or a return in the body.
BodyReturns(keepGoing, dur, r) ==
    /\ pc = "body"
    /\ now' = now + dur
    /\ lastDur' = dur
    /\ lastYield' = IF keepGoing THEN "continue" ELSE "break"
    /\ IF YieldRefused(keepGoing)
       THEN /\ pc' = "done"
            /\ ended' = "break"
            /\ UNCHANGED <<idx, currentInterval>>
       ELSE /\ currentInterval' = UpdatedInterval(config, currentInterval, r)
            /\ idx' = idx + 1
            /\ pc' = "head"
            /\ UNCHANGED ended
    /\ UNCHANGED <<shape, config, sleeps, cancelled, cancelledIn, seqElapsed,
                   yielded, retryVars, auxVars>>

\* The loop body of DoWithAttempts and DoWithAttemptsContext: fn(attempt)
\* returns err after dur.
CallbackReturns(err, dur, r) ==
    /\ shape \in DoShapes
    /\ calls' = calls + 1
    /\ okCalls' = IF err = Nil THEN okCalls + 1 ELSE okCalls
    /\ lastOpErr' = err
    /\ lastErr' = IF err = Nil THEN lastErr ELSE err
    /\ LET d == DoDecision(err)
       IN  /\ result' = IF d.stop THEN d.value ELSE result
           /\ attempt' = IF d.stop THEN attempt
                         ELSE [attempt EXCEPT !.LastError = err]
           /\ BodyReturns(~d.stop, dur, r)

CallbackSucceeds ==
    \E dur \in OpDurations : CallbackReturns(Nil, dur, 0)

CallbackFails ==
    \E dur \in OpDurations, ch \in OpChains, r \in Draws(config) :
        CallbackReturns(OpError(ch, calls + 1), dur, r)

\* The caller's own loop body over Attempts or AttemptsWithContext.
CallerReturns(keepGoing, dur, r) ==
    /\ shape \in SeqShapes \ DoShapes
    /\ BodyReturns(keepGoing, dur, r)
    /\ UNCHANGED <<calls, okCalls, lastOpErr, lastErr, result, attempt>>

CallerContinues ==
    \E dur \in OpDurations, r \in Draws(config) : CallerReturns(TRUE, dur, r)

CallerBreaks ==
    \E dur \in OpDurations : CallerReturns(FALSE, dur, 0)

NextAttempts ==
    \/ SeqHead
    \/ SeqWake
    \/ SeqInterrupted
    \/ CallbackSucceeds
    \/ CallbackFails
    \/ CallerContinues
    \/ CallerBreaks
    \/ Cancel

SpecAttempts == InitAttempts /\ [][NextAttempts]_vars

\* ------------------------------------------------------- building a policy
\* How many options a call is given at most.
MaxOpts == 3

\* The options a call can be given.
OptionPool ==
    {Initial(10 * Millisecond), Max(50 * Millisecond), MaxTime(0), Tries(0),
     Tries(50), Multiplier(30), Jitter(3), NoJitter, Forever, Aggressive,
     Gentle, Linear, Database, API, Quick, Timeout(25 * Millisecond)}

\* Every session variable: building a policy touches none of them.
sessionVars ==
    <<shape, pc, now, attempts, currentInterval, pendingInterval, calls,
      okCalls, lastErr, lastOpErr, lastCond, lastDur, result, sleeps,
      cancelled, cancelledIn, logs, mode, seqVars>>

\* config := &RetryConfig{defaults} and the options of the call, none of them
\* applied yet.
InitOptions ==
    /\ shape = "Options"
    /\ config = DefaultConfig
    /\ optsLeft \in UNION {[1..n -> OptionPool] : n \in 0..MaxOpts}
    /\ applied = <<>>
    /\ script = <<>>
    /\ runR = NoRun
    /\ runD = NoRun
    /\ store = <<>>
    /\ ranges = <<>>
    /\ actor = 0
    /\ NoHTTP
    /\ pc = "options"
    /\ now = 0
    /\ attempts = 0
    /\ currentInterval = 0
    /\ pendingInterval = 0
    /\ calls = 0
    /\ okCalls = 0
    /\ lastErr = Nil
    /\ lastOpErr = Nil
    /\ lastCond = TRUE
    /\ lastDur = 0
    /\ result = Nil
    /\ sleeps = <<>>
    /\ cancelled = FALSE
    /\ cancelledIn = "never"
    /\ logs = <<>>
    /\ mode = "exact"
    /\ idx = 0
    /\ seqElapsed = 0
    /\ attempt = NoAttempt
    /\ yielded = <<>>
    /\ ended = "none"
    /\ lastYield = "none"

\* One round of: for _, opt := range opts { opt(config) }
ApplyNext ==
    /\ shape = "Options"
    /\ optsLeft # <<>>
    /\ config' = ApplyOption(config, Head(optsLeft))
    /\ applied' = Append(applied, Head(optsLeft))
    /\ optsLeft' = Tail(optsLeft)
    /\ UNCHANGED <<sessionVars, script, runR, runD, store, ranges, actor,
                   httpVars>>

NextOptions == ApplyNext

SpecOptions == InitOptions /\ [][NextOptions]_vars

\* The fields an option assigns, with the values it assigns.
Assigned(o) ==
    CASE o.name = "Initial"    -> [InitialInterval |-> o.arg]
      [] o.name = "Max"        -> [MaxInterval |-> o.arg]
      [] o.name = "MaxTime"    -> [MaxElapsedTime |-> o.arg]
      [] o.name = "Tries"      -> [MaxRetries |-> o.arg]
      [] o.name = "Multiplier" -> [Multiplier |-> o.arg]
      [] o.name = "Jitter"     -> [RandomizeFactor |-> o.arg]
      [] o.name = "NoJitter"   -> [RandomizeFactor |-> 0]
      [] o.name = "Forever"    -> [MaxRetries |-> 0]
      [] o.name = "Aggressive" ->
             [InitialInterval |-> 100 * Millisecond, MaxInterval |-> 5 * Second,
              MaxRetries |-> 20, Multiplier |-> 15, RandomizeFactor |-> 1]
      [] o.name = "Gentle" ->
             [InitialInterval |-> 2 * Second, MaxInterval |-> 30 * Second,
              MaxRetries |-> 5, Multiplier |-> 20, RandomizeFactor |-> 5]
      [] o.name = "Linear" -> [Multiplier |-> 10, RandomizeFactor |-> 0]
      [] o.name = "Database" ->
             [InitialInterval |-> 1 * Second, MaxInterval |-> 30 * Second,
              MaxRetries |-> 10, Multiplier |-> 20, RandomizeFactor |-> 5,
              MaxElapsedTime |-> 2 * Minute]
      [] o.name = "API" ->
             [InitialInterval |-> 200 * Millisecond, MaxInterval |-> 5 * Second,
              MaxRetries |-> 3, Multiplier |-> 20, RandomizeFactor |-> 3]
      [] o.name = "Quick" ->
             [InitialInterval |-> 50 * Millisecond, MaxInterval |-> 1 * Second,
              MaxRetries |-> 3, Multiplier |-> 20, RandomizeFactor |-> 1]
      [] o.name = "Timeout" -> [MaxElapsedTime |-> o.arg, MaxRetries |-> 0]

\* The value field f has by the rule "the last option that touches it, the
\* default when none does" after the options of list.
LastWins(list, f) ==
    LET ks == {k \in 1..Len(list) : f \in DOMAIN Assigned(list[k])}
    IN  IF ks = {} THEN DefaultConfig[f]
        ELSE Assigned(list[CHOOSE k \in ks : \A j \in ks : j <= k])[f]

\* ------------------------------- Retry and DoWithAttempts on the same script
\* What an invocation of the operation can do.
Outcomes == {"ok", "fail", "perm"}

\* The error invocation k returns for the scripted outcome.
ScriptError(outcome, k) ==
    CASE outcome = "ok"   -> Nil
      [] outcome = "fail" -> OpError(<<>>, k)
      [] outcome = "perm" -> OpError(<<"perm">>, k)

\* The policies of the comparison: no jitter, no time limit.
PairOptionLists ==
    {i \o m \o n \o f \o <<MaxTime(0), Jitter(0)>> :
        i \in {<<Initial(10 * Millisecond)>>, <<Initial(100 * Millisecond)>>},
        m \in Optional({Max(50 * Millisecond)}),
        n \in {<<Tries(0)>>, <<Tries(1)>>, <<Tries(3)>>},
        f \in Optional({Multiplier(10)})}

InitPair ==
    /\ shape = "Pair"
    /\ \E o \in PairOptionLists : config = ApplyOptions(DefaultConfig, o)
    /\ script \in [1..MaxCalls -> Outcomes]
    /\ runR = [NoRun EXCEPT !.cur = config.InitialInterval]
    /\ runD = [NoRun EXCEPT !.cur = config.InitialInterval]
    /\ store = <<>>
    /\ ranges = <<>>
    /\ actor = 0
    /\ NoHTTP
    /\ optsLeft = <<>>
    /\ applied = <<>>
    /\ pc = "pair"
    /\ now = 0
    /\ attempts = 0
    /\ currentInterval = 0
    /\ pendingInterval = 0
    /\ calls = 0
    /\ okCalls = 0
    /\ lastErr = Nil
    /\ lastOpErr = Nil
    /\ lastCond = TRUE
    /\ lastDur = 0
    /\ result = Nil
    /\ sleeps = <<>>
    /\ cancelled = FALSE
    /\ cancelledIn = "never"
    /\ logs = <<>>
    /\ mode = "exact"
    /\ idx = 0
    /\ seqElapsed = 0
    /\ attempt = NoAttempt
    /\ yielded = <<>>
    /\ ended = "none"
    /\ lastYield = "none"

\* One iteration of Retry's loop on the script: the invocation, the decision,
\* and the sleep when Retry goes on.
RetryRound ==
    /\ shape = "Pair"
    /\ ~runR.done
    /\ runR.calls < Len(script)
    /\ LET k == runR.calls + 1
           err == ScriptError(script[k], k)
           d == RetryDecision(config, err, runR.count, 0)
           next == NextInterval(config, runR.cur, 0)
       IN  runR' = IF d.stop
                   THEN [runR EXCEPT !.calls = k, !.count = d.count,
                                     !.last = err, !.result = d.value,
                                     !.done = TRUE]
                   ELSE [runR EXCEPT !.calls = k, !.count = d.count,
                                     !.last = err,
                                     !.sleeps = Append(@, SleepFor(runR.cur, next)),
                                     !.cur = next]
    /\ UNCHANGED <<sessionVars, config, optsLeft, applied, script, runD, store,
                   ranges, actor, httpVars>>

\* One iteration of the loop of Attempts under DoWithAttempts on the script:
\* the stop checks, the sleep before every attempt but the first, the
\* callback, and the interval update when DoWithAttempts goes on.
DoRound ==
    /\ shape = "Pair"
    /\ ~runD.done
    /\ LET why == SeqStops(config, runD.count, 0, FALSE)
           k == runD.calls + 1
       IN  IF why # "none"
           THEN runD' = [runD EXCEPT
                            !.result = AfterLoop("DoWithAttempts", FALSE, runD.last),
                            !.done = TRUE]
           ELSE /\ k <= Len(script)
                /\ LET err == ScriptError(script[k], k)
                       d == DoDecision(err)
                       slept == IF runD.count > 0
                                THEN Append(runD.sleeps, runD.cur)
                                ELSE runD.sleeps
                   IN  runD' = IF d.stop
                               THEN [runD EXCEPT
                                        !.calls = k, !.sleeps = slept,
                                        !.last = IF err = Nil THEN @ ELSE err,
                                        !.result = d.value, !.done = TRUE]
                               ELSE [runD EXCEPT
                                        !.calls = k, !.sleeps = slept,
                                        !.last = err,
                                        !.count = @ + 1,
                                        !.cur = UpdatedInterval(config, @, 0)]
    /\ UNCHANGED <<sessionVars, config, optsLeft, applied, script, runR, store,
                   ranges, actor, httpVars>>

NextPair ==
    \/ RetryRound
    \/ DoRound

SpecPair == InitPair /\ [][NextPair]_vars

\* ------------------------------------- range loops over one sequence value
\* The range loops over the value one call of Attempts returned: in turn or
\* at the same time, each in its own goroutine.
Ranges == {1, 2}

\* The policies of the sequence value.
RangeOptionLists ==
    {<<Initial(10 * Millisecond)>> \o m \o n \o f \o t \o <<Jitter(0)>> :
        m \in Optional({Max(50 * Millisecond)}),
        n \in {<<Tries(0)>>, <<Tries(1)>>, <<Tries(3)>>},
        f \in Optional({Multiplier(10)}),
        t \in {<<MaxTime(0)>>, <<MaxTime(15 * Millisecond)>>}}

\* startTime := time.Now(); currentInterval := config.InitialInterval;
\* elapsed := time.Duration(0); i := 0
LoopVars(c, t) ==
    [idx |-> 0, cur |-> c.InitialInterval, elapsed |-> 0, start |-> t]

\* The frame of the call of Attempts that returned the sequence value.
AttemptsFrame == 0

\* Variant: the loop variables are declared in Attempts, outside the function
\* literal, which captures them: every call works on those of that frame.
Slot_captured(g) == AttemptsFrame

\* Variant: every call works on the loop variables of the first call.
Slot_first(g) == CHOOSE h \in Ranges : \A k \in Ranges : h <= k

\* The frame the loop variables of range loop g live in.  They are declared
\* inside the function literal: each call has its own, made when it starts.
Slot(g) == g

\* A range loop that has not started.
IdleRange ==
    [pc |-> "idle", wakeAt |-> 0, att |-> NoAttempt, yielded |-> <<>>,
     after |-> FALSE, ended |-> "none"]

InitRanges ==
    /\ shape = "Ranges"
    /\ \E o \in RangeOptionLists : config = ApplyOptions(SeqDefaultConfig, o)
    /\ store = [f \in {AttemptsFrame} \cup Ranges |-> LoopVars(config, 0)]
    /\ ranges = [g \in Ranges |-> IdleRange]
    /\ actor = 0
    /\ NoHTTP
    /\ script = <<>>
    /\ runR = NoRun
    /\ runD = NoRun
    /\ optsLeft = <<>>
    /\ applied = <<>>
    /\ pc = "ranges"
    /\ now = 0
    /\ attempts = 0
    /\ currentInterval = 0
    /\ pendingInterval = 0
    /\ calls = 0
    /\ okCalls = 0
    /\ lastErr = Nil
    /\ lastOpErr = Nil
    /\ lastCond = TRUE
    /\ lastDur = 0
    /\ result = Nil
    /\ sleeps = <<>>
    /\ cancelled = FALSE
    /\ cancelledIn = "never"
    /\ logs = <<>>
    /\ mode = "exact"
    /\ idx = 0
    /\ seqElapsed = 0
    /\ attempt = NoAttempt
    /\ yielded = <<>>
    /\ ended = "none"
    /\ lastYield = "none"

\* What the range loops leave alone.
rangeFrame ==
    <<shape, config, pc, attempts, currentInterval, pendingInterval, calls,
      okCalls, lastErr, lastOpErr, lastCond, lastDur, result, sleeps,
      cancelled, cancelledIn, logs, mode, seqVars, optsLeft, applied, script,
      runR, runD, httpVars>>

\* for attempt := range seq: the function literal is called.
RangeStarts(g) ==
    /\ shape = "Ranges"
    /\ ranges[g].pc = "idle"
    /\ store' = IF Slot(g) = g
                THEN [store EXCEPT ![g] = LoopVars(config, now)]
                ELSE store
    /\ ranges' = [ranges EXCEPT
                    ![g].pc = "head",
                    ![g].after = \E h \in Ranges \ {g} : ranges[h].pc = "done"]
    /\ actor' = g
    /\ UNCHANGED <<now, rangeFrame>>

\* The top of the loop of call g up to the sleep, or up to the yield for the
\* first attempt.
RangeHead(g) ==
    /\ shape = "Ranges"
    /\ ranges[g].pc = "head"
    /\ LET v == store[Slot(g)]
           why == SeqStops(config, v.idx, v.elapsed, FALSE)
           att == NewAttempt(v.idx, v.cur, v.elapsed)
       IN  IF why # "none"
           THEN ranges' = [ranges EXCEPT ![g].pc = "done", ![g].ended = why]
           ELSE /\ v.idx < MaxCalls
                /\ ranges' =
                       IF v.idx = 0
                       THEN [ranges EXCEPT ![g].pc = "body", ![g].att = att,
                                           ![g].yielded = Append(@, att)]
                       ELSE [ranges EXCEPT ![g].pc = "waiting", ![g].att = att,
                                           ![g].wakeAt = now + v.cur]
    /\ actor' = g
    /\ UNCHANGED <<now, store, rangeFrame>>

\* time.Sleep returns in call g, the sleeper due first: elapsed is measured
\* and the attempt is yielded.
RangeWakes(g) ==
    /\ shape = "Ranges"
    /\ ranges[g].pc = "waiting"
    /\ \A h \in Ranges :
           ranges[h].pc = "waiting" => ranges[g].wakeAt <= ranges[h].wakeAt
    /\ now' = IF ranges[g].wakeAt > now THEN ranges[g].wakeAt ELSE now
    /\ store' = [store EXCEPT
                    ![Slot(g)].elapsed = now' - store[Slot(g)].start]
    /\ ranges' = [ranges EXCEPT ![g].pc = "body",
                                ![g].yielded = Append(@, ranges[g].att)]
    /\ actor' = g
    /\ UNCHANGED rangeFrame

\* The body of range loop g hands control back: yield returns keepGoing.
RangeBody(g, keepGoing) ==
    /\ shape = "Ranges"
    /\ ranges[g].pc = "body"
    /\ IF YieldRefused(keepGoing)
       THEN /\ ranges' = [ranges EXCEPT ![g].pc = "done", ![g].ended = "break"]
            /\ UNCHANGED store
       ELSE /\ ranges' = [ranges EXCEPT ![g].pc = "head"]
            /\ store' = [store EXCEPT
                            ![Slot(g)].cur = UpdatedInterval(config, @, 0),
                            ![Slot(g)].idx = @ + 1]
    /\ actor' = g
    /\ UNCHANGED <<now, rangeFrame>>

RangeContinues == \E g \in Ranges : RangeBody(g, TRUE)

RangeBreaks == \E g \in Ranges : RangeBody(g, FALSE)

NextRanges ==
    \/ \E g \in Ranges : RangeStarts(g)
    \/ \E g \in Ranges : RangeHead(g)
    \/ \E g \in Ranges : RangeWakes(g)
    \/ RangeContinues
    \/ RangeBreaks

SpecRanges == InitRanges /\ [][NextRanges]_vars

\* ------------------------------------------------------------ HTTP helpers
\* RetryMiddleware.ServeHTTP, HTTPRetryTransport.RoundTrip and HTTPDo: each is
\* one call of Retry on an operation of its own.
HTTPShapes == {"ServeHTTP", "RoundTrip", "HTTPDo"}

\* The options of the HTTP sessions: no jitter, with and without an attempt
\* limit and a time limit.
HTTPOptionLists ==
    {<<Initial(10 * Millisecond)>> \o n \o t \o <<Jitter(0)>> :
        n \in {<<Tries(0)>>, <<Tries(1)>>, <<Tries(3)>>},
        t \in {<<MaxTime(0)>>, <<MaxTime(15 * Millisecond)>>}}

InitHTTP ==
    /\ shape \in HTTPShapes
    /\ \E o \in HTTPOptionLists : config = ApplyOptions(DefaultConfig, o)
    /\ \E c \in Checkers :
           middleware = NewRetryMiddleware(IF shape = "ServeHTTP" THEN c ELSE "nil")
    /\ recorder = NewResponseRecorder
    /\ writer = NewWriter
    /\ resp = NoResp
    /\ maxRetries = 0
    /\ pc = "retrying"
    /\ now = 0
    /\ attempts = 0
    /\ currentInterval = config.InitialInterval
    /\ pendingInterval = config.InitialInterval
    /\ calls = 0
    /\ okCalls = 0
    /\ lastErr = Nil
    /\ lastOpErr = Nil
    /\ lastCond = TRUE
    /\ lastDur = 0
    /\ result = Nil
    /\ sleeps = <<>>
    /\ cancelled = FALSE
    /\ cancelledIn = "never"
    /\ logs = <<>>
    /\ mode = "exact"
    /\ idx = 0
    /\ seqElapsed = 0
    /\ attempt = NoAttempt
    /\ yielded = <<>>
    /\ ended = "none"
    /\ lastYield = "none"
    /\ optsLeft = <<>>
    /\ applied = <<>>
    /\ script = <<>>
    /\ runR = NoRun
    /\ runD = NoRun
    /\ store = <<>>
    /\ ranges = <<>>
    /\ actor = 0

\* What an HTTP session leaves alone.
httpFrame ==
    <<shape, config, middleware, maxRetries, pendingInterval, okCalls,
      lastOpErr, lastCond, cancelled, cancelledIn, logs, mode, seqVars,
      optsLeft, applied, script, runR, runD, store, ranges, actor>>

\* One iteration of Retry's loop after the operation returned err at time t:
\* the decision, and the sleep when Retry goes on.  The session is then at
\* after when Retry has returned.
RetryIteration(err, t, after) ==
    LET d == RetryDecision(config, err, attempts, t)
        next == NextInterval(config, currentInterval, 0)
    IN  /\ calls' = calls + 1
        /\ lastErr' = err
        /\ attempts' = d.count
        /\ IF d.stop
           THEN /\ pc' = after
                /\ result' = d.value
                /\ now' = t
                /\ UNCHANGED <<currentInterval, sleeps>>
           ELSE /\ pc' = "retrying"
                /\ now' = t + SleepFor(currentInterval, next)
                /\ sleeps' = Append(sleeps, SleepFor(currentInterval, next))
                /\ currentInterval' = next
                /\ UNCHANGED result

\* ServeHTTP: one iteration of Retry's loop.  The operation resets the
\* recorder, calls the wrapped handler on it and asks the checker.
ServeRound ==
    /\ shape = "ServeHTTP"
    /\ pc = "retrying"
    /\ calls < MaxCalls
    /\ \E code \in Statuses, dur \in OpDurations :
         \E prog \in HandlerPrograms(calls + 1, code) :
           LET rec == NextServeHTTP(Reset(recorder), prog)
               shouldRetry == CheckerFlags(middleware.checker, Result(rec))
               err == IF shouldRetry THEN OpError(<<>>, calls + 1) ELSE Nil
           IN  /\ recorder' = rec
               /\ lastDur' = dur
               /\ RetryIteration(err, now + dur, "returned")
    /\ UNCHANGED <<writer, resp, httpFrame>>

\* ServeHTTP after Retry returned: recorder.writeTo(w), on both branches.
ServeWrites ==
    /\ shape = "ServeHTTP"
    /\ pc = "returned"
    /\ writer' = WriteTo(recorder, writer)
    /\ pc' = "done"
    /\ UNCHANGED <<recorder, resp, now, attempts, currentInterval, calls,
                   lastErr, lastDur, result, sleeps, httpFrame>>

\* The response variable after the round trip answered r: RoundTrip assigns
\* it before the status check and closes the body of a retryable response,
\* HTTPDo assigns it after the check.
RespAfter(sh, old, r) ==
    IF sh = "RoundTrip"
    THEN [r EXCEPT !.closed = RetryableStatus(r.StatusCode)]
    ELSE IF RetryableStatus(r.StatusCode) THEN old ELSE r

\* RoundTrip and HTTPDo: one iteration of Retry's loop.  The operation sends
\* the request; the round trip fails or answers with a status code.
TripRound ==
    /\ shape \in {"RoundTrip", "HTTPDo"}
    /\ pc = "retrying"
    /\ calls < MaxCalls
    /\ \E dur \in OpDurations :
         /\ lastDur' = dur
         /\ \/ /\ resp' = resp
               /\ RetryIteration(OpError(<<>>, calls + 1), now + dur, "done")
            \/ \E code \in Statuses :
                 LET r == [StatusCode |-> code, id |-> calls + 1,
                           closed |-> FALSE]
                     err == IF RetryableStatus(code)
                            THEN OpError(<<>>, calls + 1) ELSE Nil
                 IN  /\ resp' = RespAfter(shape, resp, r)
                     /\ RetryIteration(err, now + dur, "done")
    /\ UNCHANGED <<recorder, writer, httpFrame>>

NextHTTP ==
    \/ ServeRound
    \/ ServeWrites
    \/ TripRound

SpecHTTP == InitHTTP /\ [][NextHTTP]_vars

\* -------------------------------------------------------- RetryWithBackoff
\* The largest maxRetries RetryWithBackoff is called with.
MaxBackoffTries == 10

\* backoff := 100 * time.Millisecond
InitialBackoff == 100 * Millisecond

\* maxBackoff := 10 * time.Second
MaxBackoff == 10 * Second

\* Variant: the backoff doubles without a cap.
NextBackoff_uncapped(cur) == cur * 2

\* time.Duration(math.Min(float64(backoff*2), float64(maxBackoff)))
NextBackoff(cur) == Min(cur * 2, MaxBackoff)

InitBackoff ==
    /\ shape = "RetryWithBackoff"
    /\ maxRetries \in -1..MaxBackoffTries
    /\ config = DefaultConfig
    /\ middleware = NewRetryMiddleware("nil")
    /\ recorder = NewResponseRecorder
    /\ writer = NewWriter
    /\ resp = NoResp
    /\ pc = "retrying"
    /\ now = 0
    /\ attempts = 0
    /\ currentInterval = InitialBackoff
    /\ pendingInterval = 0
    /\ calls = 0
    /\ okCalls = 0
    /\ lastErr = Nil
    /\ lastOpErr = Nil
    /\ lastCond = TRUE
    /\ lastDur = 0
    /\ result = Nil
    /\ sleeps = <<>>
    /\ cancelled = FALSE
    /\ cancelledIn = "never"
    /\ logs = <<>>
    /\ mode = "exact"
    /\ idx = 0
    /\ seqElapsed = 0
    /\ attempt = NoAttempt
    /\ yielded = <<>>
    /\ ended = "none"
    /\ lastYield = "none"
    /\ optsLeft = <<>>
    /\ applied = <<>>
    /\ script = <<>>
    /\ runR = NoRun
    /\ runD = NoRun
    /\ store = <<>>
    /\ ranges = <<>>
    /\ actor = 0

\* What RetryWithBackoff leaves alone.
backoffFrame ==
    <<shape, config, attempts, pendingInterval, okCalls, lastOpErr, lastCond,
      cancelled, cancelledIn, logs, mode, seqElapsed, attempt, yielded, ended,
      lastYield, auxVars>>

\* One iteration of the loop of RetryWithBackoff, i being idx: fn is invoked;
\* on success and on the failure of the last iteration the function returns,
\* otherwise it sleeps and doubles the backoff.
BackoffRound ==
    /\ shape = "RetryWithBackoff"
    /\ pc = "retrying"
    /\ idx < maxRetries
    /\ \E chain \in {<<>>, <<"perm">>}, ok \in BOOLEAN, dur \in OpDurations :
           LET err == IF ok THEN Nil ELSE OpError(chain, calls + 1) IN
           /\ ok => chain = <<>>
           /\ calls' = calls + 1
           /\ lastErr' = err
           /\ lastDur' = dur
           /\ IF err = Nil \/ idx = maxRetries - 1
              THEN /\ pc' = "done"
                   /\ result' = err
                   /\ now' = now + dur
                   /\ UNCHANGED <<idx, currentInterval, sleeps>>
              ELSE /\ pc' = "retrying"
                   /\ now' = now + dur + currentInterval
                   /\ sleeps' = Append(sleeps, currentInterval)
                   /\ currentInterval' = NextBackoff(currentInterval)
                   /\ idx' = idx + 1
                   /\ UNCHANGED result
    /\ UNCHANGED backoffFrame

\* The loop has no iteration left to run: return nil.
BackoffLoopEnds ==
    /\ shape = "RetryWithBackoff"
    /\ pc = "retrying"
    /\ idx >= maxRetries
    /\ pc' = "done"
    /\ result' = Nil
    /\ UNCHANGED <<now, calls, lastErr, lastDur, idx, currentInterval, sleeps,
                   backoffFrame>>

NextBackoffStep ==
    \/ BackoffRound
    \/ BackoffLoopEnds

SpecBackoff == InitBackoff /\ [][NextBackoffStep]_vars

\* ------------------------------------------------- interval computation
\* The interval Retry computes after each failure of one session, for
\* policies with jitter: the computation of helpers_test.go:322-330 applied
\* to the interval the session is at.
JitterOptionLists ==
    {<<Initial(i), Multiplier(f), Jitter(j)>> \o m :
        i \in {1, 10 * Millisecond, 33 * Millisecond + 333},
        f \in {10, 15, 20},
        j \in {1, 3, 5, 10},
        m \in Optional({Max(50 * Millisecond)})}

InitIntervals ==
    /\ shape = "Intervals"
    /\ \E o \in JitterOptionLists : config = ApplyOptions(DefaultConfig, o)
    /\ pc = "loop"
    /\ currentInterval = config.InitialInterval
    /\ pendingInterval = config.InitialInterval
    /\ maxRetries = 0
    /\ middleware = NewRetryMiddleware("nil")
    /\ recorder = NewResponseRecorder
    /\ writer = NewWriter
    /\ resp = NoResp
    /\ now = 0
    /\ attempts = 0
    /\ calls = 0
    /\ okCalls = 0
    /\ lastErr = Nil
    /\ lastOpErr = Nil
    /\ lastCond = TRUE
    /\ lastDur = 0
    /\ result = Nil
    /\ sleeps = <<>>
    /\ cancelled = FALSE
    /\ cancelledIn = "never"
    /\ logs = <<>>
    /\ mode = "exact"
    /\ idx = 0
    /\ seqElapsed = 0
    /\ attempt = NoAttempt
    /\ yielded = <<>>
    /\ ended = "none"
    /\ lastYield = "none"
    /\ optsLeft = <<>>
    /\ applied = <<>>
    /\ script = <<>>
    /\ runR = NoRun
    /\ runD = NoRun
    /\ store = <<>>
    /\ ranges = <<>>
    /\ actor = 0

\* A failure within the budget: the sleep that followed the previous failure
\* is over and its interval adopted, and the next interval is computed.
FailureComputes ==
    /\ shape = "Intervals"
    /\ attempts < MaxCalls
    /\ attempts' = attempts + 1
    /\ currentInterval' = pendingInterval
    /\ \E r \in 0..(RandDen - 1) :
           pendingInterval' = NextInterval(config, currentInterval', r)
    /\ UNCHANGED <<shape, config, pc, now, calls, okCalls, lastErr, lastOpErr,
                   lastCond, lastDur, result, sleeps, cancelled, cancelledIn,
                   logs, mode, seqVars, auxVars>>

NextIntervals == FailureComputes

SpecIntervals == InitIntervals /\ [][NextIntervals]_vars

\* ------------------------------------------------- Retry, followed for ever
\* The policies of the Retry sessions followed without a bound: with and
\* without an attempt limit and a time limit, a positive initial interval.
ForeverOptionLists ==
    {<<Initial(10 * Millisecond), Max(50 * Millisecond)>> \o n \o t \o j :
        n \in {<<Tries(0)>>, <<Forever>>, <<Tries(3)>>},
        t \in {<<MaxTime(0)>>, <<MaxTime(25 * Millisecond)>>,
               <<Timeout(25 * Millisecond)>>},
        j \in Optional({Jitter(0)})}

InitForever ==
    /\ shape = "Retry"
    /\ \E opts \in ForeverOptionLists : config = ApplyOptions(DefaultConfig, opts)
    /\ pc = "loop"
    /\ now = 0
    /\ attempts = 0
    /\ currentInterval = config.InitialInterval
    /\ pendingInterval = 0
    /\ calls = 0
    /\ okCalls = 0
    /\ lastErr = Nil
    /\ lastOpErr = Nil
    /\ lastCond = TRUE
    /\ lastDur = 0
    /\ result = Nil
    /\ sleeps = <<>>
    /\ cancelled = FALSE
    /\ cancelledIn = "never"
    /\ logs = <<>>
    /\ mode = "abstract"
    /\ idx = 0
    /\ seqElapsed = 0
    /\ attempt = NoAttempt
    /\ yielded = <<>>
    /\ ended = "none"
    /\ lastYield = "none"
    /\ optsLeft = <<>>
    /\ applied = <<>>
    /\ script = <<>>
    /\ runR = NoRun
    /\ runD = NoRun
    /\ store = <<>>
    /\ ranges = <<>>
    /\ actor = 0
    /\ NoHTTP

\* The steps of a Retry session: the operation is entered, it returns, the
\* sleep ends.
RetryStep ==
    \/ RetryCall
    \/ OpSucceeds
    \/ OpFails
    \/ Wake

NextForever == RetryStep

\* The goroutine that runs Retry keeps running, the operation returns and
\* the sleeps end.
SpecForever == InitForever /\ [][NextForever]_vars /\ WF_vars(RetryStep)

\* C11 (as stated): once the context is cancelled, RetryWithContext eventually
\* returns under every policy, MaxRetries = 0 with MaxElapsedTime = 0 included.
C11_CancelledReturns ==
    (shape = "RetryWithContext" /\ cancelled) ~> (pc = "done")


\* C12: under RetryWithLogging the i-th log line reads "Attempt i failed:" with
\* the error of attempt i; when the operation failed on attempts 1..k-1 and
\* succeeded on attempt k there are exactly k-1 lines, none for attempt k, and
\* the result is nil.
C12_LogsFailuresBeforeSuccess ==
    shape = "RetryWithLogging" =>
        /\ \A i \in 1..Len(logs) :
               /\ logs[i].attempt = i
               /\ logs[i].err.kind = "op"
               /\ logs[i].err.id = i
        /\ (pc # "running" /\ lastOpErr # Nil) =>
               (Len(logs) = calls /\ logs[Len(logs)].err = lastOpErr)
        /\ (pc = "done" /\ okCalls = 1) =>
               (Len(logs) = calls - 1 /\ result = Nil)

C12_Witness ==
    /\ shape = "RetryWithLogging"
    /\ pc = "done"
    /\ okCalls = 1
    /\ calls = 3
    /\ Len(logs) = 2
    /\ result = Nil

\* The session ended because attempt n = MaxRetries failed, as every attempt
\* before it, with an error that is not permanent.
LoggingExhausted ==
    /\ shape = "RetryWithLogging"
    /\ pc = "done"
    /\ okCalls = 0
    /\ config.MaxRetries > 0
    /\ calls = config.MaxRetries
    /\ ~HasPermanent(lastOpErr)

\* C13 (as stated): when every attempt fails under MaxRetries = n, the attempt
\* that exhausts the budget is not logged: there are lines for attempts 1..n-1
\* only, and the last error is returned.
C13_ExhaustingAttemptNotLogged ==
    LoggingExhausted => (Len(logs) = calls - 1 /\ result = lastOpErr)

\* C13 (amended): RetryWithLogging writes a line for every failed attempt, the
\* one that ends the session included: when every attempt fails under
\* MaxRetries = n there are lines for attempts 1..n, numbered in order, and the
\* last error is returned.
C13_EveryFailureLogged ==
    /\ (shape = "RetryWithLogging" /\ pc # "running") =>
           Len(logs) = calls - okCalls
    /\ LoggingExhausted =>
           /\ Len(logs) = config.MaxRetries
           /\ \A i \in 1..Len(logs) : logs[i].attempt = i
           /\ logs[Len(logs)].err = result
           /\ result = lastOpErr

C13_Witness ==
    /\ LoggingExhausted
    /\ config.MaxRetries = 3
    /\ Len(logs) = 3
    /\ result = lastOpErr


\* C14: with MaxRetries = n > 0 Attempts and AttemptsWithContext yield at most
\* n attempts, and the attempts yielded are numbered 1, 2, 3, ... without gap
\* or repeat.
C14_AtMostNNumbered ==
    shape \in SeqShapes =>
        /\ \A k \in 1..Len(yielded) : yielded[k].Number = k
        /\ config.MaxRetries > 0 => Len(yielded) <= config.MaxRetries

C14_Witness ==
    /\ shape = "AttemptsWithContext"
    /\ config.MaxRetries = 3
    /\ pc = "done"
    /\ ended = "tries"
    /\ Len(yielded) = 3
    /\ yielded[3].Number = 3

\* C15 (as stated): in Attempts without jitter the first attempt has Delay 0
\* and is not slept for, the second attempt has Delay equal to the initial
\* interval, and that is what is slept before it.
C15_SecondDelayIsInitial ==
    (shape = "Attempts" /\ config.RandomizeFactor = 0) =>
        /\ Len(yielded) >= 1 => yielded[1].Delay = 0
        /\ pc = "body" => Len(sleeps) = Len(yielded) - 1
        /\ Len(yielded) >= 2 =>
               /\ yielded[2].Delay = config.InitialInterval
               /\ sleeps[1] = config.InitialInterval

\* C16: when the caller breaks after the k-th yielded attempt the sequence is
\* over at once: nothing more is slept or yielded, exactly k attempts were
\* yielded.
C16_BreakEndsSequence ==
    (shape \in SeqShapes \ DoShapes /\ lastYield = "break") =>
        /\ pc = "done"
        /\ ended = "break"
        /\ Len(yielded) = idx + 1
        /\ Len(sleeps) = idx

C16_Witness ==
    /\ shape = "Attempts"
    /\ config.MaxRetries = 3
    /\ lastYield = "break"
    /\ pc = "done"
    /\ Len(yielded) = 2
    /\ Len(sleeps) = 1

\* DoWithAttempts is over and its callback failed every time, never with a
\* permanent error.
DoAllFailed ==
    /\ shape = "DoWithAttempts"
    /\ pc = "done"
    /\ config.MaxRetries > 0
    /\ okCalls = 0
    /\ ~HasPermanent(lastOpErr)

\* DoWithAttempts is over and the last call of its callback returned nil.
DoSucceeded ==
    /\ shape = "DoWithAttempts"
    /\ pc = "done"
    /\ okCalls > 0

\* C17 (as stated): DoWithAttempts with MaxRetries = n > 0 and a callback that
\* fails with a non-permanent error every time calls it exactly n times and
\* returns the error of the n-th call; when the callback returns nil on
\* attempt k <= n it was called exactly k times and the result is nil.
C17_ExactlyNCalls ==
    /\ DoAllFailed =>
           (calls = config.MaxRetries /\ result = lastOpErr /\ result.id = calls)
    /\ DoSucceeded =>
           (okCalls = 1 /\ lastOpErr = Nil /\ result = Nil /\ calls = Len(yielded))

\* C17 (amended): under MaxRetries = n > 0 a callback failing every time is
\* called at most n times and the error of its last call is returned; it is
\* called exactly n times unless the time budget ends the sequence first,
\* which MaxElapsedTime = 0 rules out.  When the callback returns nil on
\* attempt k <= n it was called exactly k times and the result is nil.
C17_NCallsWithinTime ==
    /\ DoAllFailed =>
           /\ calls <= config.MaxRetries
           /\ calls >= 1
           /\ result = lastOpErr
           /\ result.id = calls
           /\ ended \in {"tries", "time"}
           /\ ended = "tries" <=> calls = config.MaxRetries
           /\ config.MaxElapsedTime = 0 => calls = config.MaxRetries
    /\ DoSucceeded =>
           /\ okCalls = 1
           /\ lastOpErr = Nil
           /\ result = Nil
           /\ calls = Len(yielded)
           /\ config.MaxRetries > 0 => calls <= config.MaxRetries

C17_Witness ==
    /\ DoAllFailed
    /\ config.MaxRetries = 3
    /\ calls = 3
    /\ result = lastOpErr
    /\ result.id = 3

\* C18: when the callback of DoWithAttempts or DoWithAttemptsContext returns a
\* permanent error on attempt k, the error it wraps is returned, the callback
\* was called exactly k times and nothing more is slept or attempted.
C18_PermanentEndsDo ==
    (shape \in DoShapes /\ HasPermanent(lastOpErr)) =>
        /\ pc = "done"
        /\ ended = "break"
        /\ result = PermanentCause(lastOpErr)
        /\ lastOpErr.id = calls
        /\ calls = Len(yielded)
        /\ Len(sleeps) = calls - 1

C18_Witness ==
    /\ shape = "DoWithAttemptsContext"
    /\ HasPermanent(lastOpErr)
    /\ calls = 2
    /\ pc = "done"
    /\ result = PermanentCause(lastOpErr)

\* C19: DoWithAttempts returns the exhaustion error exactly when the sequence
\* ended without the callback ever being called; every other error it returns
\* is the one its callback returned last, unwrapped when it was permanent.
C19_GenericOnlyWithoutCalls ==
    (shape = "DoWithAttempts" /\ pc = "done") =>
        /\ result = GenericErr <=> (calls = 0 /\ ended # "break")
        /\ (result # Nil /\ calls > 0) =>
               /\ lastOpErr.kind = "op"
               /\ result = IF HasPermanent(lastOpErr)
                           THEN PermanentCause(lastOpErr)
                           ELSE lastOpErr

C19_Witness ==
    /\ shape = "DoWithAttempts"
    /\ pc = "done"
    /\ ended \in {"tries", "time"}
    /\ calls > 0
    /\ result = lastOpErr
    /\ result # GenericErr

\* C20: when the context is cancelled by the time the sequence of
\* DoWithAttemptsContext ends without a success or a permanent error, the
\* context's error is returned.
C20_CancelledDoReturnsCtxErr ==
    (shape = "DoWithAttemptsContext" /\ pc = "done" /\ ended # "break"
        /\ cancelled) => result = CtxErr

C20_Witness ==
    /\ shape = "DoWithAttemptsContext"
    /\ pc = "done"
    /\ ended = "cancel"
    /\ cancelledIn = "body"
    /\ lastErr # Nil
    /\ result = CtxErr


\* C21: AttemptsWithContext stops when the context is cancelled.  A context
\* cancelled before the first pull yields no attempt; a context cancelled
\* while the sequence waits for the delay before the next attempt (the timer
\* is running: the delay is positive) ends the sequence in its next step,
\* before the delay is over and without yielding that attempt.
C21_CancelStopsSequence ==
    /\ []((shape \in SeqShapes \cap ContextShapes /\ cancelledIn = "head"
             /\ idx = 0) =>
            (yielded = <<>> /\ (pc = "done" => ended = "cancel")))
    /\ [][(shape \in SeqShapes \cap ContextShapes /\ pc = "waiting"
             /\ currentInterval > 0 /\ cancelled) =>
            (/\ pc' = "done"
             /\ ended' = "cancel"
             /\ yielded' = yielded
             /\ now' < now + currentInterval)]_vars

C21_Witness ==
    /\ shape = "AttemptsWithContext"
    /\ cancelledIn = "waiting"
    /\ pc = "done"
    /\ ended = "cancel"
    /\ Len(yielded) = 1
    /\ Len(sleeps) = 1
    /\ sleeps[1] > 0
    /\ now < sleeps[1]


\* C22 (as stated): the first attempt is yielded with LastError nil, and
\* attempt N > 1 is handed to the callback of DoWithAttempts or
\* DoWithAttemptsContext with LastError equal to the error the callback
\* returned for attempt N - 1.
C22_LastErrorIsPrevious ==
    shape \in DoShapes =>
        /\ Len(yielded) >= 1 => yielded[1].LastError = Nil
        /\ (pc = "body" /\ Len(yielded) > 1) =>
               /\ attempt = yielded[Len(yielded)]
               /\ attempt.LastError = lastOpErr


\* C23: after any list of options applied in order to the default policy,
\* every field has the value set by the last option of the list that touches
\* it, and its default when none does; so Database, Tries(50), NoJitter gives
\* initial 1s, MaxRetries 50, jitter 0, and Tries(50), Database gives
\* MaxRetries 10.
C23_LastOptionWins ==
    shape = "Options" =>
        /\ \A f \in DOMAIN config : config[f] = LastWins(applied, f)
        /\ applied = <<Database, Tries(50), NoJitter>> =>
               /\ config.InitialInterval = 1 * Second
               /\ config.MaxRetries = 50
               /\ config.RandomizeFactor = 0
        /\ applied = <<Tries(50), Database>> => config.MaxRetries = 10

C23_Witness ==
    /\ shape = "Options"
    /\ applied = <<Database, Tries(50), NoJitter>>
    /\ optsLeft = <<>>
    /\ config.InitialInterval = 1 * Second
    /\ config.MaxRetries = 50
    /\ config.RandomizeFactor = 0
    /\ config.MaxElapsedTime = 2 * Minute


\* C24 (as stated): for every policy without jitter and without time limit and
\* every sequence of outcomes of the operation, Retry and DoWithAttempts make
\* the same number of invocations, return the same result and wait the same
\* delays before attempts 2, 3, ...
C24_ShapesAgree ==
    (shape = "Pair" /\ runR.done /\ runD.done) =>
        /\ runR.calls = runD.calls
        /\ runR.result = runD.result
        /\ runR.sleeps = runD.sleeps


\* The delay an undisturbed sequence under policy c without jitter uses after
\* i interval updates.
RECURSIVE IntervalAfter(_, _)
IntervalAfter(c, i) ==
    IF i = 0 THEN c.InitialInterval
    ELSE UpdatedInterval(c, IntervalAfter(c, i - 1), 0)

\* Range loop g has been handed attempts 1, 2, 3, ... of a sequence that
\* started from new loop variables: numbered from 1, the first without delay
\* and with elapsed 0, the others with the delays of the policy, at most
\* MaxRetries of them.
YieldsFromStart(g) ==
    /\ \A k \in 1..Len(ranges[g].yielded) :
           /\ ranges[g].yielded[k].Number = k
           /\ ranges[g].yielded[k].Delay =
                  IF k = 1 THEN 0 ELSE IntervalAfter(config, k - 1)
    /\ Len(ranges[g].yielded) >= 1 => ranges[g].yielded[1].Elapsed = 0
    /\ config.MaxRetries > 0 => Len(ranges[g].yielded) <= config.MaxRetries
    /\ ranges[g].pc \in {"waiting", "body", "done"} =>
           Len(ranges[g].yielded) >= 1

\* C25 (as stated): a sequence returned by Attempts is not restartable: a
\* range loop over the same sequence value that starts after another one has
\* ended is handed no attempt.
C25_NotRestartable ==
    shape = "Ranges" =>
        \A g \in Ranges : ranges[g].after => ranges[g].yielded = <<>>

\* C25 (amended): a sequence returned by Attempts is restartable: a range loop
\* over the same sequence value that starts after another one has ended,
\* exhausted or abandoned, starts over with new loop variables and is handed
\* attempts 1, 2, 3, ... under the same policy, at most MaxRetries of them
\* when MaxRetries > 0.
C25_Restartable ==
    shape = "Ranges" =>
        \A g \in Ranges :
            ranges[g].after =>
                /\ YieldsFromStart(g)
                /\ store[Slot(g)].start <= now
                /\ ranges[g].pc = "head" =>
                       store[Slot(g)].idx = Len(ranges[g].yielded)

C25_Witness ==
    /\ shape = "Ranges"
    /\ config.MaxRetries = 3
    /\ ranges[1].pc = "done"
    /\ ranges[1].ended = "tries"
    /\ ranges[2].after
    /\ ranges[2].pc = "done"
    /\ ranges[2].ended = "tries"
    /\ Len(ranges[2].yielded) = 3
    /\ ranges[2].yielded[1].Number = 1


\* The part of the state that belongs to range loop h: its loop variables
\* (counter, interval, elapsed time, start) and what it has been handed.
OwnState(h) == <<store[Slot(h)], ranges[h]>>

\* C26: two range loops over one sequence value, interleaved in any order, are
\* each handed attempts numbered 1, 2, 3, ... with the delays of the policy
\* and stop as if alone, and no step of one changes the counter, interval or
\* elapsed time of the other.
C26_SessionsIndependent ==
    /\ [](shape = "Ranges" => \A g \in Ranges : YieldsFromStart(g))
    /\ [][shape = "Ranges" =>
            \A h \in Ranges : actor' # h => OwnState(h)' = OwnState(h)]_vars
    /\ [](shape = "Ranges" =>
            \A g \in Ranges :
                /\ ranges[g].ended = "tries" =>
                       Len(ranges[g].yielded) = config.MaxRetries
                /\ (ranges[g].pc = "done" /\ config.MaxElapsedTime = 0
                        /\ config.MaxRetries > 0) =>
                       ranges[g].ended \in {"tries", "break"})

C26_Witness ==
    /\ shape = "Ranges"
    /\ ~ranges[1].after
    /\ ~ranges[2].after
    /\ ranges[1].pc = "body"
    /\ ranges[2].pc = "waiting"
    /\ Len(ranges[1].yielded) = 3
    /\ Len(ranges[2].yielded) = 2
    /\ actor = 1


\* The response recorded last is one the middleware's checker flags.
LastFlagged == CheckerFlags(middleware.checker, Result(recorder))

\* ServeHTTP has left Retry.
ServeEnded == shape = "ServeHTTP" /\ pc \in {"returned", "done"}

\* C27 (as stated): ServeHTTP invokes the wrapped handler until the first
\* response the checker does not flag, and at most MaxRetries times: when the
\* session has ended, the last response is not flagged or the handler has
\* been invoked MaxRetries times.
C27_UntilUnflaggedOrMaxRetries ==
    (ServeEnded /\ config.MaxRetries > 0) =>
        /\ calls <= config.MaxRetries
        /\ ~LastFlagged \/ calls = config.MaxRetries

\* C27 (amended): ServeHTTP invokes the wrapped handler until the first
\* response the checker does not flag, or until the budget of Retry is used
\* up: at most MaxRetries times when MaxRetries > 0, and not again once the
\* elapsed time has reached MaxElapsedTime (when > 0).  The handler is never
\* invoked after a response that is not flagged.  With the default checker,
\* and with a nil checker, a response is flagged exactly when its status is
\* >= 500 or 429.
C27_UntilUnflaggedOrBudget ==
    /\ [](shape = "ServeHTTP" =>
            /\ config.MaxRetries > 0 => calls <= config.MaxRetries
            /\ ServeEnded =>
                   \/ ~LastFlagged
                   \/ AttemptsExhausted(config, calls)
                   \/ TimeExhausted(config, now)
            /\ (ServeEnded /\ ~LastFlagged) => result = Nil
            /\ (pc = "retrying" /\ calls > 0) => LastFlagged
            /\ (calls > 0 /\ middleware.passed \in {"nil", "default"}) =>
                   /\ (lastErr # Nil) <=>
                          (recorder.Code >= 500 \/ recorder.Code = 429)
                   /\ LastFlagged <=> lastErr # Nil)
    /\ [][(shape = "ServeHTTP" /\ calls' = calls + 1 /\ calls > 0) =>
             LastFlagged]_vars

C27_Witness ==
    /\ shape = "ServeHTTP"
    /\ middleware.passed = "nil"
    /\ pc = "done"
    /\ calls = 3
    /\ Len(sleeps) = 2
    /\ recorder.Code = 499
    /\ result = Nil

\* Every header value and every body chunk of the response written to the
\* client was written by handler invocation n.
WrittenBy(n) ==
    /\ \A x \in DOMAIN writer.Header : writer.Header[x] = n
    /\ \A j \in 1..Len(writer.Body) : writer.Body[j] = n

\* C28: ServeHTTP writes exactly one response to the client, after the retry
\* session has ended, and it is the status, headers and body recorded during
\* the last handler invocation only, on success and on exhaustion.
C28_WritesLastResponseOnce ==
    /\ [](shape = "ServeHTTP" =>
            /\ pc # "done" => writer = NewWriter
            /\ pc = "done" =>
                   /\ writer.Codes = <<recorder.Code>>
                   /\ writer.Header = recorder.Headers
                   /\ writer.Body = recorder.Body
                   /\ WrittenBy(calls))
    /\ [][(shape = "ServeHTTP" /\ calls' = calls + 1) =>
             \E code \in Statuses :
                 \E prog \in HandlerPrograms(calls', code) :
                     recorder' = NextServeHTTP(NewResponseRecorder, prog)]_vars

C28_Witness ==
    /\ shape = "ServeHTTP"
    /\ pc = "done"
    /\ calls = 3
    /\ result # Nil
    /\ writer.Codes = <<503>>
    /\ writer.Body = <<3, 3>>
    /\ "X-Attempt" \in DOMAIN writer.Header

\* RoundTrip or HTTPDo has returned.
TripEnded == shape \in {"RoundTrip", "HTTPDo"} /\ pc = "done"

\* C29 (as stated): RoundTrip and HTTPDo retry a failed round trip and a
\* status >= 500 or 429 up to the attempt budget: they return an error only
\* after MaxRetries attempts.  A nil error comes with the response of the
\* last attempt, whose status is neither >= 500 nor 429.
C29_RetriesUpToAttemptBudget ==
    TripEnded =>
        /\ (result # Nil /\ config.MaxRetries > 0) => calls = config.MaxRetries
        /\ result = Nil =>
               /\ resp.id = calls
               /\ ~(resp.StatusCode >= 500 \/ resp.StatusCode = 429)

\* C29 (amended): RoundTrip and HTTPDo retry a failed round trip and a status
\* >= 500 or 429 until the budget of Retry is used up: MaxRetries attempts
\* (when > 0) or an elapsed time of MaxElapsedTime (when > 0).  They never
\* send again after a response with another status.  A nil error comes with
\* the response of the last attempt, open, whose status is neither >= 500
\* nor 429.
C29_RetriesUpToBudget ==
    /\ [](shape \in {"RoundTrip", "HTTPDo"} =>
            /\ config.MaxRetries > 0 => calls <= config.MaxRetries
            /\ (pc = "retrying" /\ calls > 0) => lastErr # Nil
            /\ (TripEnded /\ result # Nil) =>
                   /\ result = lastErr
                   /\ AttemptsExhausted(config, calls)
                          \/ TimeExhausted(config, now)
            /\ (TripEnded /\ result = Nil) =>
                   /\ resp.id = calls
                   /\ calls > 0
                   /\ ~resp.closed
                   /\ ~(resp.StatusCode >= 500 \/ resp.StatusCode = 429))
    /\ [][(shape \in {"RoundTrip", "HTTPDo"} /\ calls' = calls + 1) =>
             /\ calls > 0 => lastErr # Nil
             /\ (resp'.id = calls'
                   /\ (resp'.StatusCode >= 500 \/ resp'.StatusCode = 429)) =>
                    lastErr' # Nil
             /\ (shape = "RoundTrip" /\ lastErr' = Nil) => resp'.id = calls'
            ]_vars

C29_Witness ==
    /\ shape = "HTTPDo"
    /\ pc = "done"
    /\ calls = 3
    /\ Len(sleeps) = 2
    /\ result = Nil
    /\ resp.id = 3
    /\ resp.StatusCode = 400

\* min(100ms x 2^(k-1), 10s)
RECURSIVE PowerOfTwo(_)
PowerOfTwo(n) == IF n = 0 THEN 1 ELSE 2 * PowerOfTwo(n - 1)

\* C30: RetryWithBackoff(fn, n) with n >= 1 invokes fn at most n times, stops
\* at the first success, returns the error of the n-th invocation when all n
\* fail, without a sleep after it, and waits min(100ms x 2^(k-1), 10s) between
\* attempt k and attempt k + 1.
C30_SimpleBackoff ==
    (shape = "RetryWithBackoff" /\ maxRetries >= 1) =>
        /\ calls <= maxRetries
        /\ (pc = "retrying" /\ calls > 0) => lastErr # Nil
        /\ pc = "done" =>
               /\ calls >= 1
               /\ result = lastErr
               /\ result # Nil => (calls = maxRetries /\ result.id = maxRetries)
               /\ Len(sleeps) = calls - 1
        /\ pc = "retrying" => Len(sleeps) = calls
        /\ \A k \in 1..Len(sleeps) :
               sleeps[k] = Min(100 * Millisecond * PowerOfTwo(k - 1),
                               10 * Second)

C30_Witness ==
    /\ shape = "RetryWithBackoff"
    /\ maxRetries = 10
    /\ pc = "done"
    /\ calls = 10
    /\ result # Nil
    /\ Len(sleeps) = 9
    /\ sleeps[8] = 10 * Second
    /\ sleeps[9] = 10 * Second


\* C31: the time-budget check uses >= in every driver: with MaxElapsedTime > 0
\* no attempt is scheduled once the elapsed time has reached MaxElapsedTime.
\* Retry sleeps for the next attempt only with an elapsed time below the
\* budget, and every attempt the sequence schedules was built with an elapsed
\* time below the budget.
C31_TimeCheckInclusive ==
    config.MaxElapsedTime > 0 =>
        /\ (shape \in Shapes /\ pc = "sleeping" /\ mode = "exact") =>
               now < config.MaxElapsedTime
        /\ shape \in SeqShapes =>
               /\ \A n \in 1..Len(yielded) :
                      yielded[n].Elapsed < config.MaxElapsedTime
               /\ pc = "waiting" => attempt.Elapsed < config.MaxElapsedTime


\* C32: with RandomizeFactor f in (0,1], every delay computed after a failure
\* lies within [g x (1-f), g x (1+f)], g = min(current delay x multiplier,
\* MaxInterval) being the value before jitter, and is never negative.  A delay
\* is a whole number of duration units: the lower end of the window is taken
\* as the conversion to time.Duration leaves it.
C32_JitterWithinWindow ==
    (shape = "Intervals" /\ attempts > 0
        /\ config.RandomizeFactor > 0 /\ config.RandomizeFactor <= 10) =>
        LET g == Grown(config, currentInterval)
            f == config.RandomizeFactor
        IN  /\ pendingInterval >= 0
            /\ pendingInterval >= TruncDiv(g * (10 - f), 10)
            /\ 10 * pendingInterval <= g * (10 + f)

C32_Witness ==
    /\ shape = "Intervals"
    /\ attempts = 2
    /\ config.RandomizeFactor = 10
    /\ config.Multiplier = 20
    /\ config.InitialInterval = 10 * Millisecond
    /\ pendingInterval = 0


\* C33: for every policy with multiplier >= 1 and jitter 0, the grown delays
\* before the clamp (current delay x multiplier) computed after successive
\* failures are non-decreasing, and every delay computed after a failure is at
\* most MaxInterval.  The delay Retry is at when failure n happens is the one
\* it sleeps after it, sleeps[n].
C33_RawDelaysNonDecreasing ==
    (shape \in Shapes /\ mode = "exact"
        /\ config.RandomizeFactor = 0 /\ config.Multiplier >= 10) =>
        /\ \A n \in 1..(Len(sleeps) - 1) :
               MulTenths(sleeps[n], config.Multiplier)
                   <= MulTenths(sleeps[n + 1], config.Multiplier)
        /\ pc = "sleeping" => pendingInterval <= config.MaxInterval


\* C34: MaxRetries = 0 means unlimited attempts.  With MaxRetries = 0 a Retry
\* session that returns a failure that is not permanent has used up its time
\* budget (which never happens with MaxElapsedTime = 0); with MaxElapsedTime
\* = 0 as well every failure that is not permanent is followed by another
\* invocation; and with MaxElapsedTime > 0 and a positive initial interval
\* the session eventually returns.
C34_ZeroMeansUnlimited ==
    /\ []((shape = "Retry" /\ config.MaxRetries = 0 /\ pc = "done"
              /\ result # Nil /\ ~HasPermanent(lastOpErr)) =>
            TimeExhausted(config, now))
    /\ []((shape = "Retry" /\ config.MaxRetries = 0
              /\ config.MaxElapsedTime = 0 /\ pc = "done") =>
            (okCalls > 0 \/ HasPermanent(lastOpErr)))
    /\ ((shape = "Retry" /\ config.MaxRetries = 0
            /\ config.MaxElapsedTime = 0 /\ pc = "sleeping")
          ~> (pc = "running"))
    /\ ((shape = "Retry" /\ config.MaxRetries = 0
            /\ config.MaxElapsedTime > 0 /\ config.InitialInterval > 0)
          => <>(pc = "done"))

C34_Witness ==
    /\ shape = "Retry"
    /\ mode = "abstract"
    /\ config.MaxRetries = 0
    /\ config.MaxElapsedTime = 0
    /\ attempts = CountCap
    /\ calls = CountCap
    /\ okCalls = 0
    /\ pc = "running"
    /\ ~HasPermanent(lastOpErr)


\* The sum of the first n entries of a sequence of durations.
RECURSIVE SumOfFirst(_, _)
SumOfFirst(seq, n) == IF n = 0 THEN 0 ELSE SumOfFirst(seq, n - 1) + seq[n]

\* C35: the Elapsed field of every yielded Attempt is the time elapsed since
\* the first attempt when the attempt is yielded: 0 for the first attempt,
\* non-decreasing from one attempt to the next, and for attempt N > 1 at
\* least the sum of the delays slept before attempts 2..N.
C35_ElapsedAtYield ==
    shape \in SeqShapes =>
        /\ Len(yielded) >= 1 => yielded[1].Elapsed = 0
        /\ \A n \in 2..Len(yielded) :
               /\ yielded[n - 1].Elapsed <= yielded[n].Elapsed
               /\ yielded[n].Elapsed >= SumOfFirst(sleeps, n - 1)


\* C36: the Delay field of every yielded Attempt is the duration the sequence
\* waited immediately before yielding it: the first attempt has Delay 0 and
\* is yielded without a wait, every later attempt has the interval that was
\* slept before it, and the clock advances by exactly that interval in the
\* step that ends the wait and yields the attempt.
C36_DelayIsTheWait ==
    /\ [](shape \in SeqShapes =>
            /\ Len(yielded) <= Len(sleeps) + 1
            /\ (Len(yielded) = 1 /\ pc = "body") => (sleeps = <<>> /\ now = 0)
            /\ \A n \in 1..Len(yielded) :
                   yielded[n].Delay = IF n = 1 THEN 0 ELSE sleeps[n - 1])
    /\ [][(shape \in SeqShapes /\ Len(yielded') = Len(yielded) + 1) =>
             LET a == yielded'[Len(yielded')]
             IN  /\ a.Delay = now' - now
                 /\ a.Number = 1 <=> pc = "head"
                 /\ a.Number > 1 <=> pc = "waiting"]_vars

C36_Witness ==
    /\ shape = "AttemptsWithContext"
    /\ ~cancelled
    /\ pc = "body"
    /\ Len(yielded) = 3
    /\ yielded[3].Delay > yielded[2].Delay
    /\ yielded[2].Delay > 0
    /\ sleeps = <<yielded[2].Delay, yielded[3].Delay>>
    /\ now >= yielded[2].Delay + yielded[3].Delay


\* C37: RetryWithBackoff(fn, n) returns nil only if an invocation of fn
\* returned nil, for every integer n, n = 0 and negative n included.
C37_NilOnlyAfterSuccess ==
    (shape = "RetryWithBackoff" /\ pc = "done" /\ result = Nil) =>
        (calls >= 1 /\ lastErr = Nil)


\* C38: the Attempts sequence yields at least one attempt under every policy,
\* MaxRetries <= 0 and any MaxElapsedTime included: it never ends before its
\* first attempt.  So DoWithAttempts invokes its callback at least once, and
\* returns nil only when its last callback invocation returned nil.
C38_AtLeastOneAttempt ==
    shape \in {"Attempts", "DoWithAttempts"} =>
        /\ (pc \in {"waiting", "done"} \/ idx > 0) => Len(yielded) >= 1
        /\ (pc = "done" /\ shape = "DoWithAttempts") =>
               /\ calls >= 1
               /\ result = Nil => (okCalls >= 1 /\ lastOpErr = Nil)

C38_Witness ==
    /\ shape = "DoWithAttempts"
    /\ config.MaxRetries < 0
    /\ config.MaxElapsedTime = 1
    /\ pc = "done"
    /\ ended = "time"
    /\ calls = 2
    /\ okCalls = 0
    /\ result = lastOpErr


\* C39: RoundTrip and HTTPDo never return a response together with an error:
\* when they return an error the response is nil, and a response whose body
\* the retry loop closed is never handed to the caller.
C39_NoResponseWithError ==
    TripEnded =>
        /\ result # Nil => resp = NoResp
        /\ ~resp.closed

\* ---------------------------------------------------------------------------
\* AttemptsWithContext statement by statement, with cancel() called from
\* another goroutine at any point of the loop.

\* The policies of the interleaving runs: a positive and a zero interval, a
\* capped and an uncapped number of attempts.
RaceOptionLists ==
    {<<Initial(i), Tries(n), MaxTime(0), Jitter(0)>> :
        i \in {0, 10 * Millisecond}, n \in {0, 3}}

\* AttemptsWithContext(ctx, opts...) returned its iterator and the range loop
\* is about to call it.
InitRace ==
    /\ shape = "AttemptsWithContext"
    /\ \E opts \in RaceOptionLists : config = ApplyOptions(SeqDefaultConfig, opts)
    /\ pc = "check"
    /\ now = 0
    /\ attempts = 0
    /\ currentInterval = config.InitialInterval
    /\ pendingInterval = 0
    /\ calls = 0
    /\ okCalls = 0
    /\ lastErr = Nil
    /\ lastOpErr = Nil
    /\ lastCond = TRUE
    /\ lastDur = 0
    /\ result = Nil
    /\ sleeps = <<>>
    /\ cancelled = FALSE
    /\ cancelledIn = "never"
    /\ logs = <<>>
    /\ mode = "exact"
    /\ idx = 0
    /\ seqElapsed = 0
    /\ attempt = NoAttempt
    /\ yielded = <<>>
    /\ ended = "none"
    /\ lastYield = "none"
    /\ optsLeft = <<>>
    /\ applied = <<>>
    /\ script = <<>>
    /\ runR = NoRun
    /\ runD = NoRun
    /\ store = <<>>
    /\ ranges = <<>>
    /\ actor = 0
    /\ NoHTTP

\* What the statements of the iterator leave alone.
raceFrame == <<shape, config, calls, okCalls, lastErr, lastOpErr, result,
               retryVars, auxVars>>

\* cancel() runs in the other goroutine: ctx.Done() is closed and ctx.Err()
\* is non-nil from here on. cancelledIn keeps the statement the iterator was at.
RaceCancel ==
    /\ pc # "done"
    /\ ~cancelled
    /\ cancelled' = TRUE
    /\ cancelledIn' = pc
    /\ UNCHANGED <<pc, now, currentInterval, lastDur, sleeps, idx, seqElapsed,
                   attempt, yielded, ended, lastYield, raceFrame>>

\* The top of the loop: ctx.Err(), the attempt cap, the time budget, then the
\* attempt is built; the first attempt goes on to the yield, a later one to
\* the select.
RaceCheck ==
    /\ pc = "check"
    /\ LET why == SeqStops(config, idx, seqElapsed, cancelled)
       IN  IF why # "none"
           THEN /\ pc' = "done"
                /\ ended' = why
                /\ UNCHANGED <<attempt, sleeps>>
           ELSE /\ idx < MaxCalls
                /\ attempt' = NewAttempt(idx, currentInterval, seqElapsed)
                /\ IF idx = 0
                   THEN /\ pc' = "yield"
                        /\ UNCHANGED sleeps
                   ELSE /\ pc' = "select"
                        /\ sleeps' = Append(sleeps, currentInterval)
                /\ UNCHANGED ended
    /\ UNCHANGED <<now, currentInterval, lastDur, cancelled, cancelledIn, idx,
                   seqElapsed, yielded, lastYield, raceFrame>>

\* select takes <-time.After(currentInterval): elapsed = time.Since(startTime).
RaceTimer ==
    /\ pc = "select"
    /\ "timer" \in SelectCases(cancelled, currentInterval)
    /\ now' = now + (IF currentInterval > 0 THEN currentInterval ELSE 0)
    /\ seqElapsed' = now'
    /\ pc' = "yield"
    /\ UNCHANGED <<currentInterval, lastDur, sleeps, cancelled, cancelledIn,
                   idx, attempt, yielded, ended, lastYield, raceFrame>>

\* select takes <-ctx.Done(): the iterator returns without yielding.
RaceDone ==
    /\ pc = "select"
    /\ "done" \in SelectCases(cancelled, currentInterval)
    /\ pc' = "done"
    /\ ended' = "cancel"
    /\ UNCHANGED <<now, currentInterval, lastDur, sleeps, cancelled,
                   cancelledIn, idx, seqElapsed, attempt, yielded, lastYield,
                   raceFrame>>

\* yield(attempt) is called: the loop body has the attempt.
RaceYield ==
    /\ pc = "yield"
    /\ yielded' = Append(yielded, attempt)
    /\ pc' = "body"
    /\ UNCHANGED <<now, currentInterval, lastDur, sleeps, cancelled,
                   cancelledIn, idx, seqElapsed, attempt, ended, lastYield,
                   raceFrame>>

\* yield returns keepGoing after dur: the iterator returns on FALSE, and
\* updates the interval and goes round on TRUE.
RaceBody ==
    /\ pc = "body"
    /\ \E keepGoing \in BOOLEAN, dur \in OpDurations :
           /\ now' = now + dur
           /\ lastDur' = dur
           /\ lastYield' = IF keepGoing THEN "continue" ELSE "break"
           /\ IF YieldRefused(keepGoing)
              THEN /\ pc' = "done"
                   /\ ended' = "break"
                   /\ UNCHANGED <<idx, currentInterval>>
              ELSE /\ currentInterval' = UpdatedInterval(config, currentInterval, 0)
                   /\ idx' = idx + 1
                   /\ pc' = "check"
                   /\ UNCHANGED ended
    /\ UNCHANGED <<sleeps, cancelled, cancelledIn, seqElapsed, attempt,
                   yielded, raceFrame>>

NextRace ==
    \/ RaceCancel
    \/ RaceCheck
    \/ RaceTimer
    \/ RaceDone
    \/ RaceYield
    \/ RaceBody

SpecRace == InitRace /\ [][NextRace]_vars

\* C40 as stated: with cancel() running concurrently, AttemptsWithContext
\* never yields an attempt after the context was cancelled: whenever the loop
\* body holds a freshly yielded attempt and the context is cancelled, the
\* cancellation arrived after that yield, during the body.
C40_NoYieldAfterCancel ==
    (shape = "AttemptsWithContext" /\ pc = "body" /\ cancelled) =>
        cancelledIn = "body"

\* C40 amended: AttemptsWithContext looks at the context at the top of each
\* iteration and while it waits, and not again before the yield. A context
\* found cancelled at the top of the loop, or cancelled during a positive
\* delay, ends the sequence without a yield; an attempt is yielded after the
\* cancellation only when cancel() came after that iteration's check (for the
\* first attempt), after the timer had been taken, or during a wait of zero
\* length, and it is the last attempt of the sequence.
C40_YieldAfterCancelOnlyPastTheCheck ==
    (shape = "AttemptsWithContext" /\ cancelled) =>
        /\ pc \in {"select", "yield"} => cancelledIn \in {"select", "yield"}
        /\ pc = "body" => cancelledIn \in {"select", "yield", "body"}
        /\ (pc \in {"yield", "body"} /\ cancelledIn = "select") =>
               (attempt.Number > 1 /\ attempt.Delay <= 0)
        /\ (pc = "done" /\ cancelledIn \in {"check", "select", "yield"}) =>
               /\ ended \in {"cancel", "break"}
               /\ ended = "break" => cancelledIn \in {"select", "yield"}
               /\ (cancelledIn = "check" \/ (cancelledIn = "select" /\ attempt.Delay > 0)) =>
                      Len(yielded) = idx

\* An attempt after a positive wait reached the loop body although cancel()
\* had run before the yield.
C40_Witness ==
    /\ shape = "AttemptsWithContext"
    /\ pc = "body"
    /\ cancelled
    /\ cancelledIn = "yield"
    /\ Len(yielded) = 2
    /\ yielded[2].Delay > 0

====
